---- MODULE Spec2Model ----
(***************************************************************************)
(* A model of the OCR API (blind-api/OCR): the PDF service pipelines       *)
(* (extractTextFromPdf, extractTextFromPdfPages, getPdfInfo), the          *)
(* controllers of the image routes (extractText, extractDetailedText,      *)
(* batchExtract) and of convert-images, the upload middleware, the         *)
(* recognition adapter (extractTextFromImage) and the shutdown of the      *)
(* server, with the rasterizer (pdf2pic), the recognition engine           *)
(* (Tesseract), the file system, the transport and the signals as          *)
(* nondeterministic collaborators.                                         *)
(*                                                                         *)
(* A JavaScript string is modelled as a sequence of chunks: every          *)
(* whitespace character is a chunk of its own, a number is rendered digit  *)
(* by digit, and a literal piece of a template is one chunk.               *)
(* Concatenation is \o.  A JavaScript number that results from a division  *)
(* is a fraction [num, den]; den = 0 stands for NaN (0 / 0).               *)
(*                                                                         *)
(* An async function is cut at its awaits: one action runs from one        *)
(* suspension point to the next, as the event loop does.                   *)
(***************************************************************************)
EXTENDS Integers, Sequences, FiniteSets, TLC

(* ------------------------------ bounds --------------------------------- *)

\* The largest number of pages of an uploaded document.
MaxPages == 2

\* The largest value the clock (Date.now()) takes.
MaxClock == 1

\* The largest number of comma-separated entries of a "pages" field.
MaxReq == 2

\* The largest number of files of a batch upload.
MaxFiles == 3

\* The largest number of termination signals the process receives.
MaxSignals == 2

(* ------------------------- JavaScript values --------------------------- *)

\* A request field that was not sent (undefined), and one that was.
Absent == [set |-> FALSE]

Some(v) == [set |-> TRUE, v |-> v]

\* Destructuring with a default: `const { x = d } = obj`.
Default(field, d) == IF field.set THEN field.v ELSE d

JSBool(b) == [t |-> "boolean", v |-> b]

JSStr(s) == [t |-> "string", v |-> s]

JSNum(n) == [t |-> "number", v |-> n]

\* A form field that was sent is a string.
JSStr2(field) == IF field.set THEN Some(JSStr(field.v)) ELSE Absent

\* The strict equality operator === on tagged values.
StrictEq(a, b) == a.t = b.t /\ a.v = b.v

IsSpace(c) == c \in {" ", "\n", "\t"}

RECURSIVE TrimStart(_)
TrimStart(s) ==
    IF s # <<>> /\ IsSpace(Head(s)) THEN TrimStart(Tail(s)) ELSE s

RECURSIVE TrimEnd(_)
TrimEnd(s) ==
    IF s # <<>> /\ IsSpace(s[Len(s)]) THEN TrimEnd(SubSeq(s, 1, Len(s) - 1)) ELSE s

\* String.prototype.trim
Trim(s) == TrimEnd(TrimStart(s))

Digits == <<"0", "1", "2", "3", "4", "5", "6", "7", "8", "9">>

RECURSIVE NatStr(_)
NatStr(n) ==
    IF n < 10 THEN <<Digits[n + 1]>>
    ELSE NatStr(n \div 10) \o <<Digits[(n % 10) + 1]>>

\* A number inside a template literal: `${n}`.
NumStr(n) == IF n < 0 THEN <<"-">> \o NatStr(0 - n) ELSE NatStr(n)

\* String.prototype.split(sep), sep one chunk.
RECURSIVE SplitFrom(_, _, _)
SplitFrom(s, sep, cur) ==
    IF s = <<>> THEN <<cur>>
    ELSE IF Head(s) = sep THEN <<cur>> \o SplitFrom(Tail(s), sep, <<>>)
    ELSE SplitFrom(Tail(s), sep, Append(cur, Head(s)))

Split(s, sep) == SplitFrom(s, sep, <<>>)

\* parseInt(s): leading white space, an optional sign, then the longest run
\* of digits; NaN when there is no digit.
IsDigit(c) == \E d \in 1..10 : Digits[d] = c

DigitValue(c) == (CHOOSE d \in 1..10 : Digits[d] = c) - 1

RECURSIVE DigitPrefix(_)
DigitPrefix(s) ==
    IF s # <<>> /\ IsDigit(Head(s)) THEN <<Head(s)>> \o DigitPrefix(Tail(s))
    ELSE <<>>

RECURSIVE DigitsValue(_, _)
DigitsValue(ds, acc) ==
    IF ds = <<>> THEN acc
    ELSE DigitsValue(Tail(ds), (10 * acc) + DigitValue(Head(ds)))

NaN == [nan |-> TRUE, n |-> 0]

ParseInt(s) ==
    LET t == TrimStart(s)
        signed == t # <<>> /\ Head(t) \in {"-", "+"}
        ds == DigitPrefix(IF signed THEN Tail(t) ELSE t)
    IN  IF ds = <<>> THEN NaN
        ELSE [nan |-> FALSE,
              n |-> IF signed /\ Head(t) = "-" THEN 0 - DigitsValue(ds, 0)
                    ELSE DigitsValue(ds, 0)]

\* Array.prototype.includes
Includes(arr, x) == \E k \in DOMAIN arr : arr[k] = x

\* Array.prototype.join(sep), on an array of strings.
RECURSIVE Join(_, _)
Join(arr, sep) ==
    IF arr = <<>> THEN <<>>
    ELSE IF Len(arr) = 1 THEN arr[1]
    ELSE arr[1] \o sep \o Join(Tail(arr), sep)

\* a / b in JavaScript, kept as a fraction; 0 / 0 is NaN (den = 0).
Div(a, b) == [num |-> a, den |-> b]

\* The number n as a fraction.
Whole(n) == [num |-> n, den |-> 1]

IsNaN(q) == q.den = 0

\* q == a / b as numbers, neither NaN.
FracEq(q, a, b) == q.den # 0 /\ b # 0 /\ q.num * b = a * q.den

(* -------------------------- recognition engine ------------------------- *)

\* OCRService.supportedLanguages
supportedLanguages ==
    << <<"eng">>, <<"ara">>, <<"ben">>, <<"bul">>, <<"ces">>, <<"chi_sim">>,
       <<"chi_tra">>, <<"dan">>, <<"deu">>, <<"ell">>, <<"fin">>, <<"fra">>,
       <<"heb">>, <<"hin">>, <<"hun">>, <<"ind">>, <<"ita">>, <<"jpn">>,
       <<"kor">>, <<"nld">>, <<"nor">>, <<"pol">>, <<"por">>, <<"ron">>,
       <<"rus">>, <<"spa">>, <<"swe">>, <<"tha">>, <<"tur">>, <<"ukr">>,
       <<"vie">> >>

\* What Tesseract.recognize resolves with (data) for an image it can read:
\* a page of white space only, a page "a" at 80% and a page " b\n" at 100%.
EngineData ==
    { [text |-> <<"\n">>, confidence |-> 100, words |-> <<>>, lines |-> <<>>,
       paragraphs |-> <<>>, blocks |-> <<>>],
      [text |-> <<"a">>, confidence |-> 80, words |-> << <<"a">> >>,
       lines |-> << <<"a">> >>, paragraphs |-> << <<"a">> >>,
       blocks |-> << <<"a">> >>],
      [text |-> <<" ", "b", "\n">>, confidence |-> 100, words |-> << <<"b">> >>,
       lines |-> << <<"b", "\n">> >>, paragraphs |-> << <<"b", "\n">> >>,
       blocks |-> << <<"b", "\n">> >>] }

\* The outcomes of one Tesseract.recognize call: resolved with data, or
\* rejected with an error.
EngineOutcomes ==
    { [ok |-> TRUE, data |-> d] : d \in EngineData }
    \cup { [ok |-> FALSE, message |-> <<"Error in pixReadStream">>] }

\* The engine cannot read an image that is not on disk.
EngineOutcomesFor(onDisk) ==
    IF onDisk THEN EngineOutcomes
    ELSE { [ok |-> FALSE, message |-> <<"Error in pixReadStream">>] }

\* A variant of FirstUnsupported that looks at the first component only.
FirstUnsupported_headOnly(languages) ==
    IF languages # <<>> /\ ~Includes(supportedLanguages, Head(languages))
    THEN <<Head(languages)>>
    ELSE <<>>

\* extractTextFromImage, lines 37-43: the first unsupported component of
\* the language, or <<>> (none) when every component is supported.
RECURSIVE FirstUnsupported(_)
FirstUnsupported(languages) ==
    IF languages = <<>> THEN <<>>
    ELSE IF ~Includes(supportedLanguages, Head(languages)) THEN <<Head(languages)>>
    ELSE FirstUnsupported(Tail(languages))

\* extractTextFromImage up to its await: the call it leaves pending. Either
\* the validation threw (the promise is already rejected, wrapped by the
\* catch of lines 98-101) or Tesseract.recognize is in flight.
OcrValidate(imagePath, opts) ==
    LET language == Default(opts.language, <<"eng">>)
        bad == FirstUnsupported(Split(language, "+"))
    IN  IF bad # <<>>
        THEN [kind |-> "rejected", path |-> imagePath, lang |-> language,
              message |-> <<"OCR processing failed: ">>
                          \o <<"Unsupported language: ">> \o bad[1]]
        ELSE [kind |-> "recognize", path |-> imagePath, lang |-> language,
              message |-> <<>>]

\* extractTextFromImage, lines 70-96: the result built from the engine's data.
OcrResult(data) ==
    [text |-> Trim(data.text), confidence |-> data.confidence,
     words |-> data.words, lines |-> data.lines,
     paragraphs |-> data.paragraphs, blocks |-> data.blocks]

\* extractTextFromImage, lines 98-101: the error it throws for an engine error.
OcrError(message) == <<"OCR processing failed: ">> \o message

(* ------------------------------ file system ---------------------------- *)

\* A directory is a function from the paths of its files to their contents.
EmptyDir == [p \in {} |-> <<>>]

\* Files written into a directory; a file of the same path is overwritten.
WriteFiles(dir, files) ==
    [p \in DOMAIN dir \cup DOMAIN files |->
        IF p \in DOMAIN files THEN files[p] ELSE dir[p]]

\* The directory without the files of the given paths.
RemoveFiles(dir, paths) == [p \in DOMAIN dir \ paths |-> dir[p]]

\* path.extname(filePath) and String.prototype.toLowerCase on it.
ExtName(filePath) == filePath.ext

ToLowerCase(s) == CASE s = ".PDF" -> ".pdf" [] OTHER -> s

\* PDFService.isValidPdf
isValidPdf(filePath) == ToLowerCase(ExtName(filePath)) = ".pdf"

(* ------------------------------- rasterizer ---------------------------- *)

\* The saveFilename of a run: `pdf_page_${Date.now()}` and the like.
SaveFilename(prefix, t) == <<prefix>> \o NumStr(t)

\* The path pdf2pic gives the image of a page: saveFilename.page.format
RasterPath(saveFilename, page) ==
    saveFilename \o <<".">> \o NumStr(page) \o <<".png">>

\* The images pdf2pic has written when it has rendered the first n pages of
\* document doc.
RasterFiles(saveFilename, doc, n) ==
    [p \in {RasterPath(saveFilename, k) : k \in 1..n} |->
        [doc |-> doc,
         page |-> CHOOSE k \in 1..n : RasterPath(saveFilename, k) = p]]

\* The outcomes of convert.bulk(-1) on a document of M pages: every page
\* rendered, or an error after some of the images were written.
RasterOutcomes(M) ==
    { [ok |-> TRUE, written |-> M] }
    \cup { [ok |-> FALSE, written |-> k] : k \in 0..M }

\* A variant of ImagePaths that lists the images from the last page to the
\* first.
ImagePaths_reversed(saveFilename, M) ==
    [k \in 1..M |-> RasterPath(saveFilename, (M + 1) - k)]

\* convertPdfToImages, line 110: results.map(result => result.path)
ImagePaths(saveFilename, M) == [k \in 1..M |-> RasterPath(saveFilename, k)]

\* convertPdfToImages, lines 115-118: the error it throws.
ConvertError == <<"Failed to convert PDF to images: ">> \o <<"gm convert failed">>

(* ------------------------------ PDF service ---------------------------- *)

\* A variant of PageData that numbers the pages from 0, as the loop index does.
PageData_fromZero(pageNumber, pageResult) ==
    [pageNumber |-> pageNumber - 1, text |-> pageResult.text,
     confidence |-> pageResult.confidence,
     wordCount |-> Len(pageResult.words), lineCount |-> Len(pageResult.lines),
     words |-> pageResult.words, lines |-> pageResult.lines]

\* extractTextFromPdf, lines 167-175, and extractTextFromPdfPages, lines
\* 294-302: the entry of a recognized page.
PageData(pageNumber, pageResult) ==
    [pageNumber |-> pageNumber, text |-> pageResult.text,
     confidence |-> pageResult.confidence,
     wordCount |-> Len(pageResult.words), lineCount |-> Len(pageResult.lines),
     words |-> pageResult.words, lines |-> pageResult.lines]

\* extractTextFromPdf, lines 192-199, and extractTextFromPdfPages, lines
\* 272-279 and 309-316: the entry of a page that failed.
FailedPage(pageNumber, message) ==
    [pageNumber |-> pageNumber, text |-> <<>>, confidence |-> 0,
     wordCount |-> 0, lineCount |-> 0, error |-> message]

\* p.error as a condition: the entry has a non-empty error.
HasError(p) == "error" \in DOMAIN p /\ p.error # <<>>

NoError(p) == ~HasError(p)

\* extractTextFromPdf, line 182: `\n\n--- Page ${i + 1} ---\n\n`
PageMarker(pageNumber) ==
    <<"\n", "\n", "--- Page ">> \o NumStr(pageNumber) \o <<" ---", "\n", "\n">>

\* A variant of CombineText that writes the marker of every recognized page,
\* whatever its text.
CombineText_everyPage(combinedText, combinePages, includePageNumbers, pageNumber, text) ==
    IF combinePages
    THEN (IF includePageNumbers
          THEN combinedText \o PageMarker(pageNumber)
          ELSE combinedText) \o text \o <<"\n">>
    ELSE combinedText

\* extractTextFromPdf, lines 180-185: the combined text after a recognized page.
CombineText(combinedText, combinePages, includePageNumbers, pageNumber, text) ==
    IF combinePages
    THEN (IF includePageNumbers /\ Trim(text) # <<>>
          THEN combinedText \o PageMarker(pageNumber)
          ELSE combinedText) \o text \o <<"\n">>
    ELSE combinedText

\* A variant of AverageConfidence without the test of the divisor.
AverageConfidence_unguarded(totalConf, count) == Div(totalConf, count)

\* extractTextFromPdf, line 211, and extractTextFromPdfPages, line 330.
AverageConfidence(totalConf, count) ==
    IF count > 0 THEN Div(totalConf, count) ELSE Whole(0)

\* A variant of NotExistMessage that reports the requested number as the
\* document's page count.
NotExistMessage_wrongCount(pageNum, count) ==
    <<"Page ">> \o NumStr(pageNum) \o <<" does not exist. PDF has ">>
    \o NumStr(pageNum) \o <<" pages.">>

\* extractTextFromPdfPages, line 278.
NotExistMessage(pageNum, count) ==
    <<"Page ">> \o NumStr(pageNum) \o <<" does not exist. PDF has ">>
    \o NumStr(count) \o <<" pages.">>

JSNull == [t |-> "null", v |-> "null"]

\* A variant of ExtractResult that always gives the combined text.
ExtractResult_alwaysText(combinePages, text, pages, count, words, conf, language) ==
    [text |-> JSStr(Trim(text)),
     pages |-> pages,
     summary |-> [totalPages |-> count, totalWords |-> words,
                  averageConfidence |-> AverageConfidence(conf, count),
                  language |-> language,
                  successfulPages |-> Len(SelectSeq(pages, NoError)),
                  failedPages |-> Len(SelectSeq(pages, HasError))]]

\* extractTextFromPdf, lines 213-225: the report.
ExtractResult(combinePages, text, pages, count, words, conf, language) ==
    [text |-> IF combinePages THEN JSStr(Trim(text)) ELSE JSNull,
     pages |-> pages,
     summary |-> [totalPages |-> count, totalWords |-> words,
                  averageConfidence |-> AverageConfidence(conf, count),
                  language |-> language,
                  successfulPages |-> Len(SelectSeq(pages, NoError)),
                  failedPages |-> Len(SelectSeq(pages, HasError))]]

\* The requested pages that exist in a document of count pages.
RECURSIVE ExistingPages(_, _)
ExistingPages(requested, count) ==
    IF requested = <<>> THEN <<>>
    ELSE (IF Head(requested) \in 1..count THEN <<Head(requested)>> ELSE <<>>)
         \o ExistingPages(Tail(requested), count)

\* A variant of PagesResult that counts every requested page that exists in
\* the document as successful.
PagesResult_countsExisting(pages, requested, count, words, conf, language) ==
    [pages |-> pages,
     summary |-> [requestedPages |-> Len(requested), totalPagesInPdf |-> count,
                  totalWords |-> words,
                  averageConfidence |-> AverageConfidence(conf, Len(pages)),
                  language |-> language,
                  successfulPages |-> Len(ExistingPages(requested, count)),
                  failedPages |-> Len(requested) - Len(ExistingPages(requested, count))]]

\* extractTextFromPdfPages, lines 332-344: the report.
PagesResult(pages, requested, count, words, conf, language) ==
    [pages |-> pages,
     summary |-> [requestedPages |-> Len(requested), totalPagesInPdf |-> count,
                  totalWords |-> words,
                  averageConfidence |-> AverageConfidence(conf, Len(pages)),
                  language |-> language,
                  successfulPages |-> Len(SelectSeq(pages, NoError)),
                  failedPages |-> Len(SelectSeq(pages, HasError))]]

\* A variant of PagesSkip that passes over a page that does not exist
\* without an entry for it.
RECURSIVE PagesSkip_silent(_, _, _, _)
PagesSkip_silent(requested, k, count, acc) ==
    IF k >= Len(requested) THEN [i |-> k, pageResults |-> acc]
    ELSE LET pageNum == requested[k + 1]
             imageIndex == pageNum - 1
         IN  IF imageIndex < 0 \/ imageIndex >= count
             THEN PagesSkip_silent(requested, k + 1, count, acc)
             ELSE [i |-> k, pageResults |-> acc]

\* extractTextFromPdfPages, lines 268-281: the requested pages from position
\* k (0-based) on that do not exist get their entries without any await; the
\* loop stops at the first page that exists, or at the end of the list.
RECURSIVE PagesSkip(_, _, _, _)
PagesSkip(requested, k, count, acc) ==
    IF k >= Len(requested) THEN [i |-> k, pageResults |-> acc]
    ELSE LET pageNum == requested[k + 1]
             imageIndex == pageNum - 1
         IN  IF imageIndex < 0 \/ imageIndex >= count
             THEN PagesSkip(requested, k + 1, count,
                      Append(acc, FailedPage(pageNum,
                                             NotExistMessage(pageNum, count))))
             ELSE [i |-> k, pageResults |-> acc]

\* getPdfInfo, lines 382-388: the information it returns.
InfoResult(count) == [pageCount |-> count, isValid |-> TRUE]

\* What the loop sees when the pending extractTextFromImage call settles: the
\* rejection of the validation, or the engine's answer turned into a result
\* or an error. A call the engine never answers settles in no way.
PendingOutcomes(p, onDisk) ==
    IF p.kind = "rejected"
    THEN { [ok |-> FALSE, res |-> <<>>, message |-> p.message] }
    ELSE IF p.kind = "recognize"
    THEN { IF e.ok THEN [ok |-> TRUE, res |-> OcrResult(e.data), message |-> <<>>]
           ELSE [ok |-> FALSE, res |-> <<>>, message |-> OcrError(e.message)]
           : e \in EngineOutcomesFor(onDisk) }
    ELSE {}

NoPending == [kind |-> "none", path |-> <<>>, lang |-> <<>>, message |-> <<>>]

(* -------------------------------- requests ----------------------------- *)

\* The uploaded file as multer stores it: its path (with the extension of
\* its original name), what its bytes are and, for what the rasterizer makes
\* of it, the number of pages of the document.
UploadedFile(idx, ext, pages) ==
    [path |-> [base |-> "uploads/file", idx |-> idx, ext |-> ext],
     originalname |-> <<"upload">> \o NumStr(idx) \o <<ext>>, pages |-> pages,
     content |-> IF ToLowerCase(ext) = ".pdf" THEN "pdf" ELSE "image"]

\* An image uploaded under a name that ends in .pdf.
RenamedImage == [UploadedFile(0, ".pdf", 1) EXCEPT !.content = "image"]

PdfFiles ==
    { Absent, Some(UploadedFile(0, ".png", 0)), Some(UploadedFile(0, ".PDF", 1)) }
    \cup { Some(UploadedFile(0, ".pdf", m)) : m \in 0..MaxPages }

LanguageInputs ==
    { Absent, Some(<<"eng", "+", "fra">>), Some(<<"eng", "+", "xxx">>),
      Some(<<"xxx">>) }

\* The languages sent with an extract-pages request.
PagesLanguageInputs == { Absent, Some(<<"eng", "+", "xxx">>) }

FlagInputs == { Absent, Some(<<"true">>), Some(<<"false">>) }

\* The comma-separated entries of a "pages" field: numbers, with white
\* space, zero, and entries that are not numbers.
PageTokens ==
    { <<"1">>, <<" ", "2">>, <<"3">>, <<"0">>, <<"x">>, <<"2", "x">> }

PagesInputs ==
    { Absent, Some(<<>>) }
    \cup { Some(Join(ts, <<",">>)) :
             ts \in UNION { [1..n -> PageTokens] : n \in 1..MaxReq } }

ExtractRequests ==
    { [route |-> "pdf/extract", file |-> f, files |-> Absent,
       body |-> [language |-> l, combinePages |-> c, includePageNumbers |-> n,
                 pages |-> Absent]]
      : f \in PdfFiles, l \in LanguageInputs, c \in FlagInputs, n \in FlagInputs }

PagesRequests ==
    { [route |-> "pdf/extract-pages", file |-> f, files |-> Absent,
       body |-> [language |-> l, combinePages |-> Absent,
                 includePageNumbers |-> Absent, pages |-> p]]
      : f \in PdfFiles, l \in PagesLanguageInputs, p \in PagesInputs }

InfoRequests ==
    { [route |-> "pdf/info", file |-> f, files |-> Absent,
       body |-> [language |-> Absent, combinePages |-> Absent,
                 includePageNumbers |-> Absent, pages |-> Absent]]
      : f \in PdfFiles }

\* The files of a batch upload: images, numbered as multer stored them.
BatchFiles ==
    { Absent }
    \cup { Some([k \in 1..n |-> UploadedFile(k, ".png", 0)]) : n \in 0..MaxFiles }

BatchRequests ==
    { [route |-> "ocr/batch", file |-> Absent, files |-> fs,
       body |-> [language |-> l, combinePages |-> Absent,
                 includePageNumbers |-> Absent, pages |-> Absent]]
      : fs \in BatchFiles, l \in LanguageInputs }

Requests ==
    ExtractRequests \cup PagesRequests \cup InfoRequests \cup BatchRequests

\* No request: the run is idle.
NoRequest ==
    [route |-> "none", file |-> Absent, files |-> Absent,
     body |-> [language |-> Absent, combinePages |-> Absent,
               includePageNumbers |-> Absent, pages |-> Absent]]

(* --------------------------------- state ------------------------------- *)

VARIABLES
    req,              \* run -> the HTTP request (req.file, req.files, req.body)
    pc,               \* run -> where the run's handler is suspended
    now,              \* the clock: the last value Date.now() returned
    tempDir,          \* PDFService.tempDir: path -> content of each image
    uploads,          \* uploadsDir: <<run, path>> -> the uploaded files
    unlinks,          \* run -> the fs.unlink calls cleanupFiles has started
    options,          \* run -> the options the controller passes down
    saveFilename,     \* run -> saveFilename given to pdf2pic
    imagePaths,       \* run -> imagePaths / allImagePaths
    pageNumbers,      \* run -> pageNumbers (extract-pages)
    i,                \* run -> the loop's position (0-based)
    pending,          \* run -> the extractTextFromImage call awaited
    pageResults,      \* run -> pageResults (PDF) or results (batch)
    combinedText,     \* run -> combinedText
    totalConfidence,  \* run -> totalConfidence
    totalWords,       \* run -> totalWords
    result,           \* run -> how the service call settled
    response,         \* run -> the HTTP response sent
    trace,            \* run -> the calls made to the collaborators, in order
    abandoned,        \* run -> the client has given the request up
    handle,           \* server._handle: the server is listening
    closeListeners,   \* the once('close') listeners of the server, in order
    timers,           \* the forced-shutdown timers that are armed
    exitCode,         \* the code process.exit was called with, if it was
    events            \* what happened to the process, in order

vars ==
    <<req, pc, now, tempDir, uploads, unlinks, options, saveFilename, imagePaths, pageNumbers, i,
      pending, pageResults, combinedText, totalConfidence, totalWords, result,
      response, trace, abandoned, handle, closeListeners, timers, exitCode,
      events>>

\* The state of the HTTP server and of the process (server.js).
serverVars == <<abandoned, handle, closeListeners, timers, exitCode, events>>

\* The requests in progress (runs) are numbered: the server handles up to
\* two requests at a time.
RunIds == {1, 2}

Set(f, r, v) == [f EXCEPT ![r] = v]

NoResult == [kind |-> "none", value |-> <<>>, message |-> <<>>]

Returned(value) == [kind |-> "return", value |-> value, message |-> <<>>]

Thrown(message) == [kind |-> "throw", value |-> <<>>, message |-> message]

NoResponse == [status |-> 0, success |-> FALSE, code |-> "", error |-> <<>>,
               data |-> <<>>]

\* res.status(status).json({success: false, error, code})
ErrorResponse(status, error, code) ==
    [status |-> status, success |-> FALSE, code |-> code, error |-> error,
     data |-> <<>>]

\* res.json({success: true, data})
OkResponse(data) ==
    [status |-> 200, success |-> TRUE, code |-> "", error |-> <<>>, data |-> data]

\* The uploaded files of a request, in the order cleanupFiles unlinks them
\* (upload.js, lines 163-175).
UploadPaths(request) ==
    (IF request.file.set THEN <<request.file.v.path>> ELSE <<>>)
    \o (IF request.files.set
        THEN [k \in 1..Len(request.files.v) |-> request.files.v[k].path]
        ELSE <<>>)

\* The place of a run's uploaded file in uploadsDir (multer makes the names
\* of the stored files unique).
UploadKey(r, path) == <<r, path>>

UploadKeys(r, request) ==
    { UploadKey(r, UploadPaths(request)[k]) : k \in DOMAIN UploadPaths(request) }

Range(f) == { f[k] : k \in DOMAIN f }

\* The calls a run makes to its collaborators.
Event(e, path, ok, o) == [e |-> e, path |-> path, ok |-> ok, o |-> o]

InitRun(first, second) ==
    /\ req \in { [r \in RunIds |-> IF r = 1 THEN a ELSE b] :
                    a \in first, b \in second }
    /\ pc = [r \in RunIds |->
                IF req[r].route = "none" THEN "done" ELSE "validateFile"]
    /\ now = 0
    /\ tempDir = EmptyDir
    /\ uploads = [k \in UNION { UploadKeys(r, req[r]) : r \in RunIds } |-> k[2]]
    /\ unlinks = [r \in RunIds |-> <<>>]
    /\ options = [r \in RunIds |-> <<>>]
    /\ saveFilename = [r \in RunIds |-> <<>>]
    /\ imagePaths = [r \in RunIds |-> <<>>]
    /\ pageNumbers = [r \in RunIds |-> <<>>]
    /\ i = [r \in RunIds |-> 0]
    /\ pending = [r \in RunIds |-> NoPending]
    /\ pageResults = [r \in RunIds |-> <<>>]
    /\ combinedText = [r \in RunIds |-> <<>>]
    /\ totalConfidence = [r \in RunIds |-> 0]
    /\ totalWords = [r \in RunIds |-> 0]
    /\ result = [r \in RunIds |-> NoResult]
    /\ response = [r \in RunIds |-> NoResponse]
    /\ trace = [r \in RunIds |-> <<>>]
    /\ abandoned = [r \in RunIds |-> FALSE]
    /\ handle = TRUE
    /\ closeListeners = <<>>
    /\ timers = 0
    /\ exitCode = Absent
    /\ events = <<>>

\* One request is received; the other run stays idle.
Init == InitRun(Requests, {NoRequest})

(* ------------------------------ middleware ----------------------------- *)

loopVars ==
    <<imagePaths, pageNumbers, i, pending, pageResults, combinedText,
      totalConfidence, totalWords>>

\* A variant of Send that starts the unlinks twice, as a hook on both
\* res.json and res.send would.
Send_unlinkTwice(r, resp) ==
    /\ response' = Set(response, r, resp)
    /\ unlinks' = Set(unlinks, r,
                      unlinks[r] \o UploadPaths(req[r]) \o UploadPaths(req[r]))

\* res.json / res.send as cleanupFiles hooks it (upload.js, lines 158-181):
\* an fs.unlink is started for every uploaded file, then the response goes out.
Send(r, resp) ==
    /\ response' = Set(response, r, resp)
    /\ unlinks' = Set(unlinks, r, unlinks[r] \o UploadPaths(req[r]))

\* upload.js validateFile: a request without any file is answered here.
validateFile(r) ==
    /\ pc[r] = "validateFile"
    /\ IF ~req[r].file.set /\ (~req[r].files.set \/ Len(req[r].files.v) = 0)
       THEN /\ Send(r, ErrorResponse(400,
                  <<"No file uploaded. Please provide a file.">>, "NO_FILE_UPLOADED"))
            /\ pc' = Set(pc, r, "done")
       ELSE /\ pc' = Set(pc, r, "controller")
            /\ UNCHANGED <<response, unlinks>>
    /\ UNCHANGED <<serverVars, req, now, tempDir, uploads, options, saveFilename, loopVars,
                   result, trace>>

\* The call of convertPdfToImages (lines 86-108) with a saveFilename made of
\* Date.now(), up to `await convert.bulk(-1)`.
StartRaster(r, prefix) ==
    \E t \in now..MaxClock :
        /\ now' = t
        /\ saveFilename' = Set(saveFilename, r, SaveFilename(prefix, t))
        /\ trace' = Set(trace, r, Append(trace[r],
              Event("rasterize", SaveFilename(prefix, t), TRUE, <<>>)))
        /\ pc' = Set(pc, r, "bulk")

\* convert.bulk(-1) has settled (line 108): the run's calls so far, with the
\* number of images the rasterizer wrote under the run's saveFilename.
Rendered(r, out) ==
    Append(trace[r], Event("rendered", saveFilename[r], out.ok, out.written))

\* A variant of StartCall that calls the engine a second time for the image.
StartCall_again(r, imagePath, opts, seen) ==
    LET call == OcrValidate(imagePath, opts)
    IN  /\ pending' = Set(pending, r, call)
        /\ trace' = Set(trace, r,
              IF call.kind = "recognize"
              THEN seen \o <<Event("recognize", call.path, TRUE, call.lang),
                             Event("recognize", call.path, TRUE, call.lang)>>
              ELSE seen)

\* The call of extractTextFromImage for an image, up to its await.
StartCall(r, imagePath, opts, seen) ==
    LET call == OcrValidate(imagePath, opts)
    IN  /\ pending' = Set(pending, r, call)
        /\ trace' = Set(trace, r,
              IF call.kind = "recognize"
              THEN Append(seen, Event("recognize", call.path, TRUE, call.lang))
              ELSE seen)

(* ---------------------- POST /pdf/extract: the run --------------------- *)

\* PDFController.extractFromPdf up to its await, through
\* PDFService.extractTextFromPdf (lines 127-147).
extractFromPdf(r) ==
    /\ pc[r] = "controller"
    /\ req[r].route = "pdf/extract"
    /\ LET file == req[r].file
           body == req[r].body
           language == Default(body.language, <<"eng">>)
           combinePages == Default(JSStr2(body.combinePages), JSBool(TRUE))
           includePageNumbers ==
               Default(JSStr2(body.includePageNumbers), JSBool(TRUE))
       IN  IF ~file.set
           THEN /\ Send(r, ErrorResponse(400, <<"No PDF file uploaded">>, "NO_FILE"))
                /\ pc' = Set(pc, r, "done")
                /\ UNCHANGED <<now, options, saveFilename, trace>>
           ELSE IF ~isValidPdf(file.v.path)
           THEN /\ Send(r, ErrorResponse(400, <<"Invalid PDF file">>, "INVALID_PDF"))
                /\ pc' = Set(pc, r, "done")
                /\ UNCHANGED <<now, options, saveFilename, trace>>
           ELSE /\ options' = Set(options, r,
                      [language |-> Some(language),
                       combinePages |->
                           Some(StrictEq(combinePages, JSStr(<<"true">>))),
                       includePageNumbers |->
                           Some(StrictEq(includePageNumbers, JSStr(<<"true">>)))])
                /\ StartRaster(r, "pdf_page_")
                /\ UNCHANGED <<response, unlinks>>
    /\ UNCHANGED <<serverVars, req, tempDir, uploads, loopVars, result>>

\* extractTextFromPdf: the report it returns when the loop is over.
ExtractReturn(r, count, pages, text, conf, words) ==
    Returned(ExtractResult(Default(options[r].combinePages, TRUE), text, pages,
                           count, words, conf,
                           Default(options[r].language, <<"eng">>)))

\* A variant of ExtractRasterDone that goes on with the images written so
\* far when the rasterizer fails.
ExtractRasterDone_partial(r) ==
    /\ pc[r] = "bulk"
    /\ req[r].route = "pdf/extract"
    /\ \E out \in RasterOutcomes(req[r].file.v.pages) :
         /\ tempDir' = WriteFiles(tempDir, RasterFiles(saveFilename[r], r, out.written))
         /\ imagePaths' = Set(imagePaths, r, ImagePaths(saveFilename[r], out.written))
         /\ IF out.written = 0
            THEN /\ result' = Set(result, r, ExtractReturn(r, 0, <<>>, <<>>, 0, 0))
                 /\ pc' = Set(pc, r, "settled")
                 /\ trace' = Set(trace, r, Rendered(r, out))
                 /\ UNCHANGED pending
            ELSE /\ StartCall(r, RasterPath(saveFilename[r], 1), options[r],
                              Rendered(r, out))
                 /\ pc' = Set(pc, r, "page")
                 /\ UNCHANGED result
    /\ UNCHANGED <<serverVars, req, now, uploads, unlinks, options, saveFilename, pageNumbers, i,
                   pageResults, combinedText, totalConfidence, totalWords, response>>

\* extractTextFromPdf resumed by the rasterizer: lines 108-119 of
\* convertPdfToImages, then lines 149-165 (the first page's call) or, for a
\* document without pages, lines 210-228; on an error lines 230-233.
ExtractRasterDone(r) ==
    /\ pc[r] = "bulk"
    /\ req[r].route = "pdf/extract"
    /\ \E out \in RasterOutcomes(req[r].file.v.pages) :
         /\ tempDir' = WriteFiles(tempDir, RasterFiles(saveFilename[r], r, out.written))
         /\ IF ~out.ok
            THEN /\ result' = Set(result, r,
                       Thrown(<<"PDF OCR processing failed: ">> \o ConvertError))
                 /\ pc' = Set(pc, r, "settled")
                 /\ trace' = Set(trace, r, Rendered(r, out))
                 /\ UNCHANGED <<imagePaths, pending>>
            ELSE /\ imagePaths' = Set(imagePaths, r,
                       ImagePaths(saveFilename[r], out.written))
                 /\ IF out.written = 0
                    THEN /\ result' = Set(result, r,
                               ExtractReturn(r, 0, <<>>, <<>>, 0, 0))
                         /\ pc' = Set(pc, r, "settled")
                         /\ trace' = Set(trace, r, Rendered(r, out))
                         /\ UNCHANGED pending
                    ELSE /\ StartCall(r, RasterPath(saveFilename[r], 1), options[r],
                                      Rendered(r, out))
                         /\ pc' = Set(pc, r, "page")
                         /\ UNCHANGED result
    /\ UNCHANGED <<serverVars, req, now, uploads, unlinks, options, saveFilename, pageNumbers, i,
                   pageResults, combinedText, totalConfidence, totalWords, response>>

\* One turn of the loop of extractTextFromPdf, lines 155-208, for the outcome
\* o of the page's extractTextFromImage call and the outcome of the unlink:
\* the page's entry, the combined text, the totals, the unlink of the page's
\* image; then the next page's call or, after the last page, the report
\* (lines 210-228).
ExtractTurn(r, o, unlinkOk) ==
    LET pageNumber == i[r] + 1
        imagePath == imagePaths[r][i[r] + 1]
        pages == Append(pageResults[r],
                    IF o.ok THEN PageData(pageNumber, o.res)
                    ELSE FailedPage(pageNumber, o.message))
        text == IF o.ok
                THEN CombineText(combinedText[r],
                         Default(options[r].combinePages, TRUE),
                         Default(options[r].includePageNumbers, TRUE),
                         pageNumber, o.res.text)
                ELSE combinedText[r]
        conf == IF o.ok THEN totalConfidence[r] + o.res.confidence
                ELSE totalConfidence[r]
        words == IF o.ok THEN totalWords[r] + Len(o.res.words)
                 ELSE totalWords[r]
        deleted == unlinkOk /\ imagePath \in DOMAIN tempDir
        seen == trace[r] \o <<Event("outcome", imagePath, o.ok, o),
                              Event("unlink", imagePath, deleted, <<>>)>>
    IN  /\ pageResults' = Set(pageResults, r, pages)
        /\ combinedText' = Set(combinedText, r, text)
        /\ totalConfidence' = Set(totalConfidence, r, conf)
        /\ totalWords' = Set(totalWords, r, words)
        /\ tempDir' = IF deleted THEN RemoveFiles(tempDir, {imagePath})
                      ELSE tempDir
        /\ i' = Set(i, r, i[r] + 1)
        /\ IF i[r] + 1 < Len(imagePaths[r])
           THEN /\ StartCall(r, imagePaths[r][i[r] + 2], options[r], seen)
                /\ UNCHANGED <<pc, result>>
           ELSE /\ pending' = Set(pending, r, NoPending)
                /\ trace' = Set(trace, r, seen)
                /\ result' = Set(result, r,
                      ExtractReturn(r, Len(imagePaths[r]), pages, text,
                                    conf, words))
                /\ pc' = Set(pc, r, "settled")

\* A variant of ExtractPageDone without the try/catch around the page's
\* call: a recognition failure leaves extractTextFromPdf through its outer
\* catch (lines 230-233).
ExtractPageDone_uncaught(r) ==
    /\ pc[r] = "page"
    /\ req[r].route = "pdf/extract"
    /\ \E o \in PendingOutcomes(pending[r], pending[r].path \in DOMAIN tempDir),
          unlinkOk \in BOOLEAN :
          IF o.ok THEN ExtractTurn(r, o, unlinkOk)
          ELSE /\ result' = Set(result, r,
                      Thrown(<<"PDF OCR processing failed: ">> \o o.message))
               /\ pc' = Set(pc, r, "settled")
               /\ pending' = Set(pending, r, NoPending)
               /\ trace' = Set(trace, r,
                      Append(trace[r],
                             Event("outcome", pending[r].path, FALSE, o)))
               /\ UNCHANGED <<pageResults, combinedText, totalConfidence,
                              totalWords, tempDir, i>>
    /\ UNCHANGED <<serverVars, req, now, uploads, unlinks, options, saveFilename, imagePaths,
                   pageNumbers, response>>

\* A variant of ExtractPageDone without the try/catch around fs.unlinkSync
\* (lines 203-207): a failing unlink leaves extractTextFromPdf through its
\* outer catch (lines 230-233).
ExtractPageDone_unlinkThrows(r) ==
    /\ pc[r] = "page"
    /\ req[r].route = "pdf/extract"
    /\ \E o \in PendingOutcomes(pending[r], pending[r].path \in DOMAIN tempDir),
          unlinkOk \in BOOLEAN :
          IF unlinkOk THEN ExtractTurn(r, o, unlinkOk)
          ELSE /\ result' = Set(result, r,
                      Thrown(<<"PDF OCR processing failed: ">> \o <<"EPERM">>))
               /\ pc' = Set(pc, r, "settled")
               /\ pending' = Set(pending, r, NoPending)
               /\ trace' = Set(trace, r,
                      trace[r] \o <<Event("outcome", pending[r].path, o.ok, o),
                                    Event("unlink", pending[r].path, FALSE, <<>>)>>)
               /\ UNCHANGED <<pageResults, combinedText, totalConfidence,
                              totalWords, tempDir, i>>
    /\ UNCHANGED <<serverVars, req, now, uploads, unlinks, options, saveFilename, imagePaths,
                   pageNumbers, response>>

\* extractTextFromPdf resumed when the page's extractTextFromImage call
\* settles (line 160): one turn of the loop.
ExtractPageDone(r) ==
    /\ pc[r] = "page"
    /\ req[r].route = "pdf/extract"
    /\ \E o \in PendingOutcomes(pending[r], pending[r].path \in DOMAIN tempDir),
          unlinkOk \in BOOLEAN : ExtractTurn(r, o, unlinkOk)
    /\ UNCHANGED <<serverVars, req, now, uploads, unlinks, options, saveFilename, imagePaths,
                   pageNumbers, response>>

\* PDFController.extractFromPdf resumed by the service: lines 49-72 for a
\* report, lines 74-81 for an error.
ExtractRespond(r) ==
    /\ pc[r] = "settled"
    /\ req[r].route = "pdf/extract"
    /\ Send(r, IF result[r].kind = "return"
               THEN OkResponse([text |-> result[r].value.text,
                                pages |-> result[r].value.pages,
                                summary |-> result[r].value.summary])
               ELSE ErrorResponse(500, result[r].message, "PDF_OCR_ERROR"))
    /\ pc' = Set(pc, r, "done")
    /\ UNCHANGED <<serverVars, req, now, tempDir, uploads, options, saveFilename, loopVars,
                   result, trace>>

(* ------------------- POST /pdf/extract-pages: the run ------------------ *)

\* extractFromPdfPages, line 125:
\* pages.split(',').map(p => parseInt(p.trim())).filter(p => p > 0)
RECURSIVE FilterPositive(_)
FilterPositive(parsed) ==
    IF parsed = <<>> THEN <<>>
    ELSE IF ~Head(parsed).nan /\ Head(parsed).n > 0
         THEN <<Head(parsed).n>> \o FilterPositive(Tail(parsed))
         ELSE FilterPositive(Tail(parsed))

ParsePages(pages) ==
    LET parts == Split(pages, ",")
    IN  FilterPositive([k \in 1..Len(parts) |-> ParseInt(Trim(parts[k]))])

\* PDFController.extractFromPdfPages up to its await, through
\* PDFService.extractTextFromPdfPages (lines 243-261).
extractFromPdfPages(r) ==
    /\ pc[r] = "controller"
    /\ req[r].route = "pdf/extract-pages"
    /\ LET file == req[r].file
           body == req[r].body
           language == Default(body.language, <<"eng">>)
           reject(error, code) ==
               /\ Send(r, ErrorResponse(400, error, code))
               /\ pc' = Set(pc, r, "done")
               /\ UNCHANGED <<now, options, saveFilename, trace, pageNumbers>>
       IN  IF ~file.set
           THEN reject(<<"No PDF file uploaded">>, "NO_FILE")
           ELSE IF ~body.pages.set \/ body.pages.v = <<>>
           THEN reject(<<"No pages specified.">>, "NO_PAGES_SPECIFIED")
           ELSE IF ~isValidPdf(file.v.path)
           THEN reject(<<"Invalid PDF file">>, "INVALID_PDF")
           ELSE IF Len(ParsePages(body.pages.v)) = 0
           THEN reject(<<"Invalid page numbers format.">>, "INVALID_PAGE_FORMAT")
           ELSE /\ pageNumbers' = Set(pageNumbers, r, ParsePages(body.pages.v))
                /\ options' = Set(options, r, [language |-> Some(language)])
                /\ StartRaster(r, "pdf_selective_")
                /\ UNCHANGED <<response, unlinks>>
    /\ UNCHANGED <<serverVars, req, tempDir, uploads, imagePaths, i, pending, pageResults,
                   combinedText, totalConfidence, totalWords, result>>

\* The unlink of every image of a run, in order (lines 320-327 and 371-378):
\* the images whose unlink fails stay.
Unlinked(paths, failing, dir) == (Range(paths) \ failing) \cap DOMAIN dir

UnlinkEvents(paths, deleted) ==
    [k \in 1..Len(paths) |-> Event("unlink", paths[k], paths[k] \in deleted, <<>>)]

\* The loop of extractTextFromPdfPages from position k on, up to its next
\* await (lines 268-292) or, when the list is exhausted, through the cleanup
\* to the report (lines 320-347).
PagesContinue(r, paths, dir, acc, k, conf, words, seen) ==
    LET adv == PagesSkip(pageNumbers[r], k, Len(paths), acc)
    IN  /\ pageResults' = Set(pageResults, r, adv.pageResults)
        /\ i' = Set(i, r, adv.i)
        /\ totalConfidence' = Set(totalConfidence, r, conf)
        /\ totalWords' = Set(totalWords, r, words)
        /\ IF adv.i < Len(pageNumbers[r])
           THEN /\ StartCall(r, paths[pageNumbers[r][adv.i + 1]], options[r], seen)
                /\ tempDir' = dir
                /\ pc' = Set(pc, r, "page")
                /\ UNCHANGED result
           ELSE \E failing \in SUBSET Range(paths) :
                /\ tempDir' = RemoveFiles(dir, Unlinked(paths, failing, dir))
                /\ trace' = Set(trace, r,
                      seen \o UnlinkEvents(paths, Unlinked(paths, failing, dir)))
                /\ pending' = Set(pending, r, NoPending)
                /\ result' = Set(result, r,
                      Returned(PagesResult(adv.pageResults, pageNumbers[r],
                                           Len(paths), words, conf,
                                           Default(options[r].language, <<"eng">>))))
                /\ pc' = Set(pc, r, "settled")

\* extractTextFromPdfPages resumed by the rasterizer.
PagesRasterDone(r) ==
    /\ pc[r] = "bulk"
    /\ req[r].route = "pdf/extract-pages"
    /\ \E out \in RasterOutcomes(req[r].file.v.pages) :
         LET dir == WriteFiles(tempDir, RasterFiles(saveFilename[r], r, out.written))
         IN  IF ~out.ok
             THEN /\ tempDir' = dir
                  /\ result' = Set(result, r,
                        Thrown(<<"PDF selective OCR processing failed: ">>
                               \o ConvertError))
                  /\ pc' = Set(pc, r, "settled")
                  /\ trace' = Set(trace, r, Rendered(r, out))
                  /\ UNCHANGED <<imagePaths, pending, pageResults, i,
                                 totalConfidence, totalWords>>
             ELSE /\ imagePaths' = Set(imagePaths, r,
                        ImagePaths(saveFilename[r], out.written))
                  /\ PagesContinue(r, ImagePaths(saveFilename[r], out.written),
                                   dir, <<>>, 0, 0, 0, Rendered(r, out))
    /\ UNCHANGED <<serverVars, req, now, uploads, unlinks, options, saveFilename, pageNumbers,
                   combinedText, response>>

\* A variant of PagesPageDone that unlinks the page's image as soon as its
\* call has settled, as the loop of extractTextFromPdf does.
PagesPageDone_unlinkEach(r) ==
    /\ pc[r] = "page"
    /\ req[r].route = "pdf/extract-pages"
    /\ \E o \in PendingOutcomes(pending[r], pending[r].path \in DOMAIN tempDir) :
         LET pageNum == pageNumbers[r][i[r] + 1]
             pages == Append(pageResults[r],
                         IF o.ok THEN PageData(pageNum, o.res)
                         ELSE FailedPage(pageNum, o.message))
             conf == IF o.ok THEN totalConfidence[r] + o.res.confidence
                     ELSE totalConfidence[r]
             words == IF o.ok THEN totalWords[r] + Len(o.res.words)
                      ELSE totalWords[r]
             seen == trace[r]
                     \o <<Event("outcome", pending[r].path, o.ok, o),
                          Event("unlink", pending[r].path,
                                pending[r].path \in DOMAIN tempDir, <<>>)>>
         IN  PagesContinue(r, imagePaths[r],
                           RemoveFiles(tempDir, {pending[r].path}), pages,
                           i[r] + 1, conf, words, seen)
    /\ UNCHANGED <<serverVars, req, now, uploads, unlinks, options, saveFilename, imagePaths,
                   pageNumbers, combinedText, response>>

\* One turn of the loop of extractTextFromPdfPages for a page that exists,
\* lines 283-317, resumed when its extractTextFromImage call settles.
PagesPageDone(r) ==
    /\ pc[r] = "page"
    /\ req[r].route = "pdf/extract-pages"
    /\ \E o \in PendingOutcomes(pending[r], pending[r].path \in DOMAIN tempDir) :
         LET pageNum == pageNumbers[r][i[r] + 1]
             pages == Append(pageResults[r],
                         IF o.ok THEN PageData(pageNum, o.res)
                         ELSE FailedPage(pageNum, o.message))
             conf == IF o.ok THEN totalConfidence[r] + o.res.confidence
                     ELSE totalConfidence[r]
             words == IF o.ok THEN totalWords[r] + Len(o.res.words)
                      ELSE totalWords[r]
             seen == Append(trace[r], Event("outcome", pending[r].path, o.ok, o))
         IN  PagesContinue(r, imagePaths[r], tempDir, pages, i[r] + 1, conf,
                           words, seen)
    /\ UNCHANGED <<serverVars, req, now, uploads, unlinks, options, saveFilename, imagePaths,
                   pageNumbers, combinedText, response>>

\* PDFController.extractFromPdfPages resumed by the service: lines 148-171 for
\* a report, lines 173-180 for an error.
PagesRespond(r) ==
    /\ pc[r] = "settled"
    /\ req[r].route = "pdf/extract-pages"
    /\ Send(r, IF result[r].kind = "return"
               THEN OkResponse([pages |-> result[r].value.pages,
                                summary |-> [result[r].value.summary EXCEPT
                                    !.requestedPages = pageNumbers[r]]])
               ELSE ErrorResponse(500, result[r].message, "PDF_PAGES_OCR_ERROR"))
    /\ pc' = Set(pc, r, "done")
    /\ UNCHANGED <<serverVars, req, now, tempDir, uploads, options, saveFilename, loopVars,
                   result, trace>>

(* ------------------------ POST /pdf/info: the run ---------------------- *)

\* PDFController.getPdfInfo up to its await, through PDFService.getPdfInfo
\* (lines 360-367).
getPdfInfo(r) ==
    /\ pc[r] = "controller"
    /\ req[r].route = "pdf/info"
    /\ LET file == req[r].file
       IN  IF ~file.set
           THEN /\ Send(r, ErrorResponse(400, <<"No PDF file uploaded">>, "NO_FILE"))
                /\ pc' = Set(pc, r, "done")
                /\ UNCHANGED <<now, saveFilename, trace>>
           ELSE IF ~isValidPdf(file.v.path)
           THEN /\ Send(r, ErrorResponse(400, <<"Invalid PDF file">>, "INVALID_PDF"))
                /\ pc' = Set(pc, r, "done")
                /\ UNCHANGED <<now, saveFilename, trace>>
           ELSE /\ StartRaster(r, "pdf_info_")
                /\ UNCHANGED <<response, unlinks>>
    /\ UNCHANGED <<serverVars, req, tempDir, uploads, options, loopVars, result>>

\* PDFService.getPdfInfo resumed by the rasterizer: lines 369-388, or lines
\* 390-393 on an error.
InfoRasterDone(r) ==
    /\ pc[r] = "bulk"
    /\ req[r].route = "pdf/info"
    /\ \E out \in RasterOutcomes(req[r].file.v.pages) :
         LET dir == WriteFiles(tempDir, RasterFiles(saveFilename[r], r, out.written))
             paths == ImagePaths(saveFilename[r], out.written)
         IN  IF ~out.ok
             THEN /\ tempDir' = dir
                  /\ result' = Set(result, r,
                        Thrown(<<"Failed to get PDF info: ">> \o ConvertError))
                  /\ trace' = Set(trace, r, Rendered(r, out))
                  /\ UNCHANGED imagePaths
             ELSE \E failing \in SUBSET Range(paths) :
                  /\ imagePaths' = Set(imagePaths, r, paths)
                  /\ tempDir' = RemoveFiles(dir, Unlinked(paths, failing, dir))
                  /\ trace' = Set(trace, r,
                        Rendered(r, out)
                        \o UnlinkEvents(paths, Unlinked(paths, failing, dir)))
                  /\ result' = Set(result, r, Returned(InfoResult(Len(paths))))
    /\ pc' = Set(pc, r, "settled")
    /\ UNCHANGED <<serverVars, req, now, uploads, unlinks, options, saveFilename, pageNumbers, i,
                   pending, pageResults, combinedText, totalConfidence, totalWords,
                   response>>

\* PDFController.getPdfInfo resumed by the service: lines 210-232 for the
\* information, lines 234-241 for an error.
InfoRespond(r) ==
    /\ pc[r] = "settled"
    /\ req[r].route = "pdf/info"
    /\ Send(r, IF result[r].kind = "return"
               THEN OkResponse([pdfInfo |-> result[r].value])
               ELSE ErrorResponse(500, result[r].message, "PDF_INFO_ERROR"))
    /\ pc' = Set(pc, r, "done")
    /\ UNCHANGED <<serverVars, req, now, tempDir, uploads, options, saveFilename, loopVars,
                   result, trace>>

(* ------------------------ POST /ocr/batch: the run --------------------- *)

\* A variant of BatchItem that counts the files from 1.
BatchItem_fromOne(file, index, o) ==
    IF o.ok
    THEN [success |-> TRUE,
          fileInfo |-> [originalName |-> file.originalname, index |-> index + 1],
          data |-> [text |-> o.res.text, confidence |-> o.res.confidence,
                    wordCount |-> Len(o.res.words),
                    lineCount |-> Len(o.res.lines)]]
    ELSE [success |-> FALSE,
          fileInfo |-> [originalName |-> file.originalname, index |-> index + 1],
          error |-> o.message]

\* batchExtract, lines 203-217 and 220-229: the entry of an item.
BatchItem(file, index, o) ==
    IF o.ok
    THEN [success |-> TRUE,
          fileInfo |-> [originalName |-> file.originalname, index |-> index],
          data |-> [text |-> o.res.text, confidence |-> o.res.confidence,
                    wordCount |-> Len(o.res.words),
                    lineCount |-> Len(o.res.lines)]]
    ELSE [success |-> FALSE,
          fileInfo |-> [originalName |-> file.originalname, index |-> index],
          error |-> o.message]

IsSuccess(item) == item.success

\* batchExtract, lines 233-252: the response.
BatchResponse(files, results, language) ==
    OkResponse([results |-> results,
                summary |-> [totalFiles |-> Len(files),
                             successfulFiles |-> Len(SelectSeq(results, IsSuccess)),
                             failedFiles |-> Len(files) - Len(SelectSeq(results, IsSuccess)),
                             language |-> language]])

\* OCRController.batchExtract up to its first await (lines 173-201).
batchExtract(r) ==
    /\ pc[r] = "controller"
    /\ req[r].route = "ocr/batch"
    /\ LET files == req[r].files
           language == Default(req[r].body.language, <<"eng">>)
       IN  IF ~files.set \/ Len(files.v) = 0
           THEN /\ Send(r, ErrorResponse(400, <<"No files uploaded">>, "NO_FILES"))
                /\ pc' = Set(pc, r, "done")
                /\ UNCHANGED <<options, pending, trace>>
           ELSE /\ options' = Set(options, r, [language |-> Some(language)])
                /\ StartCall(r, files.v[1].path, [language |-> Some(language)], trace[r])
                /\ pc' = Set(pc, r, "item")
                /\ UNCHANGED <<response, unlinks>>
    /\ UNCHANGED <<serverVars, req, now, tempDir, uploads, saveFilename, imagePaths,
                   pageNumbers, i, pageResults, combinedText, totalConfidence,
                   totalWords, result>>

\* One turn of the loop of batchExtract, lines 196-231, resumed when the
\* item's extractTextFromImage call settles; after the last item the response
\* (lines 233-254).
BatchItemDone(r) ==
    /\ pc[r] = "item"
    /\ req[r].route = "ocr/batch"
    /\ \E o \in PendingOutcomes(pending[r],
                   UploadKey(r, pending[r].path) \in DOMAIN uploads) :
         LET files == req[r].files.v
             results == Append(pageResults[r], BatchItem(files[i[r] + 1], i[r], o))
             seen == Append(trace[r], Event("outcome", pending[r].path, o.ok, o))
         IN  /\ pageResults' = Set(pageResults, r, results)
             /\ i' = Set(i, r, i[r] + 1)
             /\ IF i[r] + 1 < Len(files)
                THEN /\ StartCall(r, files[i[r] + 2].path, options[r], seen)
                     /\ UNCHANGED <<pc, response, unlinks>>
                ELSE /\ pending' = Set(pending, r, NoPending)
                     /\ trace' = Set(trace, r, seen)
                     /\ Send(r, BatchResponse(files, results,
                                    Default(req[r].body.language, <<"eng">>)))
                     /\ pc' = Set(pc, r, "done")
    /\ UNCHANGED <<serverVars, req, now, tempDir, uploads, options, saveFilename, imagePaths,
                   pageNumbers, combinedText, totalConfidence, totalWords, result>>

\* Two requests received together: documents of one page or more, sent with
\* the default language, and a batch of one image.
ConcFiles == { Some(UploadedFile(0, ".pdf", m)) : m \in 1..MaxPages }

ConcRequests ==
    { q \in ExtractRequests \cup PagesRequests \cup InfoRequests :
        /\ q.file \in ConcFiles
        /\ q.body.language = Absent
        /\ q.body.combinePages = Absent
        /\ q.body.includePageNumbers = Absent
        /\ q.body.pages \in {Absent, Some(<<"1", ",", " ", "2">>)} }
    \cup { q \in BatchRequests :
             q.files = Some(<<UploadedFile(1, ".png", 0)>>) /\ q.body.language = Absent }

ConcInit == InitRun(ConcRequests, ConcRequests)

Next ==
    \/ \E r \in RunIds : validateFile(r)
    \/ \E r \in RunIds : extractFromPdf(r)
    \/ \E r \in RunIds : ExtractRasterDone(r)
    \/ \E r \in RunIds : ExtractPageDone(r)
    \/ \E r \in RunIds : ExtractRespond(r)
    \/ \E r \in RunIds : extractFromPdfPages(r)
    \/ \E r \in RunIds : PagesRasterDone(r)
    \/ \E r \in RunIds : PagesPageDone(r)
    \/ \E r \in RunIds : PagesRespond(r)
    \/ \E r \in RunIds : getPdfInfo(r)
    \/ \E r \in RunIds : InfoRasterDone(r)
    \/ \E r \in RunIds : InfoRespond(r)
    \/ \E r \in RunIds : batchExtract(r)
    \/ \E r \in RunIds : BatchItemDone(r)

Spec == Init /\ [][Next]_vars

\* Two requests in progress at a time, their steps interleaved at the awaits.
ConcSpec == ConcInit /\ [][Next]_vars

(* ------- POST /ocr/extract and /ocr/extract-detailed: the runs --------- *)

\* The upload of a single-image request: none, or an image.
ImageFiles == { Absent, Some(UploadedFile(0, ".png", 0)) }

ExtractTextRequests ==
    { [route |-> "ocr/extract", file |-> f, files |-> Absent,
       body |-> [language |-> l, enhance |-> e, denoise |-> d, deskew |-> k]]
      : f \in ImageFiles, l \in LanguageInputs, e \in FlagInputs,
        d \in FlagInputs, k \in FlagInputs }

DetailedRequests ==
    { [route |-> "ocr/extract-detailed", file |-> f, files |-> Absent,
       body |-> [language |-> l, includeWords |-> w, includeLines |-> n,
                 includeParagraphs |-> p, includeBlocks |-> b]]
      : f \in ImageFiles, l \in LanguageInputs, w \in FlagInputs,
        n \in FlagInputs, p \in FlagInputs, b \in FlagInputs }

ImageRequests == ExtractTextRequests \cup DetailedRequests

\* OCRController.extractText up to its await (lines 9-53), through
\* extractTextWithPreprocessing (lines 110-134) when a preprocessing flag is
\* set: preprocessImage gives the image's own path back.
extractText(r) ==
    /\ pc[r] = "controller"
    /\ req[r].route = "ocr/extract"
    /\ LET file == req[r].file
           body == req[r].body
           language == Default(body.language, <<"eng">>)
           enhance == StrictEq(Default(JSStr2(body.enhance), JSBool(FALSE)),
                               JSStr(<<"true">>))
           denoise == StrictEq(Default(JSStr2(body.denoise), JSBool(FALSE)),
                               JSStr(<<"true">>))
           deskew == StrictEq(Default(JSStr2(body.deskew), JSBool(FALSE)),
                              JSStr(<<"true">>))
           opts == [language |-> Some(language),
                    preprocessing |-> Some(enhance \/ denoise \/ deskew)]
       IN  IF ~file.set
           THEN /\ Send(r, ErrorResponse(400, <<"No file uploaded">>, "NO_FILE"))
                /\ pc' = Set(pc, r, "done")
                /\ UNCHANGED <<options, pending, trace>>
           ELSE /\ options' = Set(options, r, opts)
                /\ StartCall(r, file.v.path, opts, trace[r])
                /\ pc' = Set(pc, r, "image")
                /\ UNCHANGED <<response, unlinks>>
    /\ UNCHANGED <<serverVars, req, now, tempDir, uploads, saveFilename,
                   imagePaths, pageNumbers, i, pageResults, combinedText,
                   totalConfidence, totalWords, result>>

\* extractText, lines 57-78: the data of the response.
ExtractTextData(res, language) ==
    [text |-> res.text, confidence |-> res.confidence,
     wordCount |-> Len(res.words), lineCount |-> Len(res.lines),
     paragraphCount |-> Len(res.paragraphs), blockCount |-> Len(res.blocks),
     language |-> language]

\* extractTextWithPreprocessing, lines 143-146: the error it throws.
EnhancedError(message) == <<"Enhanced OCR processing failed: ">> \o message

\* extractText resumed when the service call settles: lines 55-80 for a
\* result, lines 82-89 for an error.
ExtractTextDone(r) ==
    /\ pc[r] = "image"
    /\ req[r].route = "ocr/extract"
    /\ \E o \in PendingOutcomes(pending[r],
                   UploadKey(r, pending[r].path) \in DOMAIN uploads) :
         /\ trace' = Set(trace, r,
                Append(trace[r], Event("outcome", pending[r].path, o.ok, o)))
         /\ Send(r, IF o.ok
                    THEN OkResponse(ExtractTextData(o.res,
                             Default(req[r].body.language, <<"eng">>)))
                    ELSE ErrorResponse(500,
                             IF options[r].preprocessing.v
                             THEN EnhancedError(o.message) ELSE o.message,
                             "OCR_PROCESSING_ERROR"))
    /\ pending' = Set(pending, r, NoPending)
    /\ pc' = Set(pc, r, "done")
    /\ UNCHANGED <<serverVars, req, now, tempDir, uploads, options, saveFilename,
                   imagePaths, pageNumbers, i, pageResults, combinedText,
                   totalConfidence, totalWords, result>>

\* OCRController.extractDetailedText up to its await (lines 95-121).
extractDetailedText(r) ==
    /\ pc[r] = "controller"
    /\ req[r].route = "ocr/extract-detailed"
    /\ LET file == req[r].file
           language == Default(req[r].body.language, <<"eng">>)
       IN  IF ~file.set
           THEN /\ Send(r, ErrorResponse(400, <<"No file uploaded">>, "NO_FILE"))
                /\ pc' = Set(pc, r, "done")
                /\ UNCHANGED <<options, pending, trace>>
           ELSE /\ options' = Set(options, r, [language |-> Some(language)])
                /\ StartCall(r, file.v.path, [language |-> Some(language)],
                             trace[r])
                /\ pc' = Set(pc, r, "image")
                /\ UNCHANGED <<response, unlinks>>
    /\ UNCHANGED <<serverVars, req, now, tempDir, uploads, saveFilename,
                   imagePaths, pageNumbers, i, pageResults, combinedText,
                   totalConfidence, totalWords, result>>

\* A field of the response that is there only when the test holds.
Optional(test, name, value) ==
    IF test THEN [k \in {name} |-> value] ELSE [k \in {} |-> value]

\* extractDetailedText, lines 98-106 and 140-151: whether a unit is put in
\* the response, for the include flag as it came in the body.
Included(flag) ==
    StrictEq(Default(JSStr2(flag), JSBool(TRUE)), JSStr(<<"true">>))

\* extractDetailedText, lines 124-151: the data of the response.
DetailedData(res, language, body) ==
    [text |-> res.text, confidence |-> res.confidence, language |-> language]
    @@ Optional(Included(body.includeWords), "words", res.words)
    @@ Optional(Included(body.includeLines), "lines", res.lines)
    @@ Optional(Included(body.includeParagraphs), "paragraphs", res.paragraphs)
    @@ Optional(Included(body.includeBlocks), "blocks", res.blocks)

\* extractDetailedText resumed when the service call settles: lines 122-158
\* for a result, lines 160-167 for an error.
DetailedDone(r) ==
    /\ pc[r] = "image"
    /\ req[r].route = "ocr/extract-detailed"
    /\ \E o \in PendingOutcomes(pending[r],
                   UploadKey(r, pending[r].path) \in DOMAIN uploads) :
         /\ trace' = Set(trace, r,
                Append(trace[r], Event("outcome", pending[r].path, o.ok, o)))
         /\ Send(r, IF o.ok
                    THEN OkResponse(DetailedData(o.res,
                             Default(req[r].body.language, <<"eng">>),
                             req[r].body))
                    ELSE ErrorResponse(500, o.message, "DETAILED_OCR_ERROR"))
    /\ pending' = Set(pending, r, NoPending)
    /\ pc' = Set(pc, r, "done")
    /\ UNCHANGED <<serverVars, req, now, tempDir, uploads, options, saveFilename,
                   imagePaths, pageNumbers, i, pageResults, combinedText,
                   totalConfidence, totalWords, result>>

\* A second single-image request in progress at the same time, if any: an
\* image sent with the defaults.
ImageSecond ==
    { NoRequest }
    \cup { q \in ImageRequests :
             /\ q.file # Absent
             /\ \A f \in DOMAIN q.body : q.body[f] = Absent }

ImageInit == InitRun(ImageRequests, ImageSecond)

ImageNext ==
    \/ \E r \in RunIds : validateFile(r)
    \/ \E r \in RunIds : extractText(r)
    \/ \E r \in RunIds : ExtractTextDone(r)
    \/ \E r \in RunIds : extractDetailedText(r)
    \/ \E r \in RunIds : DetailedDone(r)

\* The single-image routes of the OCR router.
ImageSpec == ImageInit /\ [][ImageNext]_vars

(* -------------------- POST /pdf/convert-images: the run ---------------- *)

ConvertRequests ==
    { [route |-> "pdf/convert-images", file |-> f, files |-> Absent,
       body |-> [language |-> Absent, combinePages |-> Absent,
                 includePageNumbers |-> Absent, pages |-> Absent]]
      : f \in PdfFiles \cup { Some(RenamedImage) } }

\* PDFController.convertToImages up to its await (lines 247-287), through
\* convertPdfToImages (lines 86-108): no saveFilename is passed, so the
\* images are named after the default, 'page'.
convertToImages(r) ==
    /\ pc[r] = "controller"
    /\ req[r].route = "pdf/convert-images"
    /\ LET file == req[r].file
       IN  IF ~file.set
           THEN /\ Send(r, ErrorResponse(400, <<"No PDF file uploaded">>, "NO_FILE"))
                /\ pc' = Set(pc, r, "done")
                /\ UNCHANGED <<saveFilename, trace>>
           ELSE IF ~isValidPdf(file.v.path)
           THEN /\ Send(r, ErrorResponse(400, <<"Invalid PDF file">>, "INVALID_PDF"))
                /\ pc' = Set(pc, r, "done")
                /\ UNCHANGED <<saveFilename, trace>>
           ELSE /\ saveFilename' = Set(saveFilename, r, <<"page">>)
                /\ trace' = Set(trace, r, Append(trace[r],
                      Event("rasterize", <<"page">>, TRUE, <<>>)))
                /\ pc' = Set(pc, r, "bulk")
                /\ UNCHANGED <<response, unlinks>>
    /\ UNCHANGED <<serverVars, req, now, tempDir, uploads, options, loopVars,
                   result>>

\* convertToImages, lines 291-309: what one turn of the loop pushes onto
\* images. The entry of the image is pushed before the image is unlinked:
\* when the unlink throws, the catch pushes an error entry after it.
ConvertEntries(pageNumber, readOk, unlinkOk) ==
    IF ~readOk
    THEN << [pageNumber |-> pageNumber, error |-> <<"ENOENT">>] >>
    ELSE << [pageNumber |-> pageNumber, format |-> <<"png">>] >>
         \o (IF unlinkOk THEN <<>>
             ELSE << [pageNumber |-> pageNumber, error |-> <<"EPERM">>] >>)

\* The loop of convertToImages from position k on (lines 290-310), for the
\* images whose read fails and those whose unlink fails: the entries, the
\* directory it leaves and the file-system calls it makes.
RECURSIVE ConvertLoop(_, _, _, _, _)
ConvertLoop(paths, k, dir, readFails, unlinkFails) ==
    IF k > Len(paths) THEN [images |-> <<>>, dir |-> dir, events |-> <<>>]
    ELSE LET path == paths[k]
             readOk == path \in DOMAIN dir /\ path \notin readFails
             unlinkOk == readOk /\ path \notin unlinkFails
             rest == ConvertLoop(paths, k + 1,
                         IF unlinkOk THEN RemoveFiles(dir, {path}) ELSE dir,
                         readFails, unlinkFails)
         IN  [images |-> ConvertEntries(k, readOk, unlinkOk) \o rest.images,
              dir |-> rest.dir,
              events |-> <<Event("read", path, readOk, <<>>)>>
                         \o (IF readOk
                             THEN <<Event("unlink", path, unlinkOk, <<>>)>>
                             ELSE <<>>)
                         \o rest.events]

\* convertToImages, lines 312-329: the data of the response.
ConvertData(images, count) ==
    [images |-> images,
     summary |-> [totalPages |-> count,
                  successfulConversions |-> Len(SelectSeq(images, NoError)),
                  failedConversions |-> Len(SelectSeq(images, HasError))]]

\* convertToImages resumed by the rasterizer: lines 108-119 of
\* convertPdfToImages, then lines 288-334, or lines 336-343 on an error.
ConvertRasterDone(r) ==
    /\ pc[r] = "bulk"
    /\ req[r].route = "pdf/convert-images"
    /\ \E out \in RasterOutcomes(req[r].file.v.pages) :
         LET dir == WriteFiles(tempDir,
                        RasterFiles(saveFilename[r], r, out.written))
             paths == ImagePaths(saveFilename[r], out.written)
         IN  IF ~out.ok
             THEN /\ tempDir' = dir
                  /\ trace' = Set(trace, r, Rendered(r, out))
                  /\ Send(r, ErrorResponse(500, ConvertError,
                                           "PDF_CONVERSION_ERROR"))
                  /\ UNCHANGED imagePaths
             ELSE \E readFails \in SUBSET Range(paths),
                     unlinkFails \in SUBSET Range(paths) :
                    LET loop == ConvertLoop(paths, 1, dir, readFails, unlinkFails)
                    IN  /\ imagePaths' = Set(imagePaths, r, paths)
                        /\ tempDir' = loop.dir
                        /\ trace' = Set(trace, r, Rendered(r, out) \o loop.events)
                        /\ Send(r, OkResponse(ConvertData(loop.images, Len(paths))))
    /\ pc' = Set(pc, r, "done")
    /\ UNCHANGED <<serverVars, req, now, uploads, options, saveFilename,
                   pageNumbers, i, pending, pageResults, combinedText,
                   totalConfidence, totalWords, result>>

(* ------------------------------ every route ---------------------------- *)

\* An fs.unlink that cleanupFiles started (upload.js, lines 164-166 and
\* 171-173) completes: the uploaded file is gone. A failing unlink is only
\* logged and leaves everything as it is.
UploadUnlinked(r) ==
    /\ \E k \in DOMAIN unlinks[r] :
         /\ UploadKey(r, unlinks[r][k]) \in DOMAIN uploads
         /\ uploads' = RemoveFiles(uploads, {UploadKey(r, unlinks[r][k])})
    /\ UNCHANGED <<serverVars, req, pc, now, tempDir, unlinks, options,
                   saveFilename, loopVars, result, response, trace>>

\* The document requests of an image stored under a name that ends in .pdf,
\* sent with the defaults.
RenamedRequests ==
    { [route |-> rt, file |-> Some(RenamedImage), files |-> Absent,
       body |-> [language |-> Absent, combinePages |-> Absent,
                 includePageNumbers |-> Absent,
                 pages |-> IF rt = "pdf/extract-pages" THEN Some(<<"1">>)
                           ELSE Absent]]
      : rt \in {"pdf/extract", "pdf/extract-pages", "pdf/info"} }

AllRequests ==
    Requests \cup ImageRequests \cup ConvertRequests \cup RenamedRequests

AllInit == InitRun(AllRequests, {NoRequest})

AllNext ==
    \/ \E r \in RunIds : validateFile(r)
    \/ \E r \in RunIds : extractFromPdf(r)
    \/ \E r \in RunIds : ExtractRasterDone(r)
    \/ \E r \in RunIds : ExtractPageDone(r)
    \/ \E r \in RunIds : ExtractRespond(r)
    \/ \E r \in RunIds : extractFromPdfPages(r)
    \/ \E r \in RunIds : PagesRasterDone(r)
    \/ \E r \in RunIds : PagesPageDone(r)
    \/ \E r \in RunIds : PagesRespond(r)
    \/ \E r \in RunIds : getPdfInfo(r)
    \/ \E r \in RunIds : InfoRasterDone(r)
    \/ \E r \in RunIds : InfoRespond(r)
    \/ \E r \in RunIds : batchExtract(r)
    \/ \E r \in RunIds : BatchItemDone(r)
    \/ \E r \in RunIds : extractText(r)
    \/ \E r \in RunIds : ExtractTextDone(r)
    \/ \E r \in RunIds : extractDetailedText(r)
    \/ \E r \in RunIds : DetailedDone(r)
    \/ \E r \in RunIds : convertToImages(r)
    \/ \E r \in RunIds : ConvertRasterDone(r)
    \/ \E r \in RunIds : UploadUnlinked(r)

\* One request on any route of the OCR and PDF routers.
AllSpec == AllInit /\ [][AllNext]_vars

(* ------------------- a document run that is given up ------------------- *)

\* The document requests that can be given up while they are processed:
\* documents of one page or more, sent with the defaults.
AbandonRequests ==
    { q \in ExtractRequests \cup PagesRequests :
        /\ q.file \in ConcFiles
        /\ q.body.language = Absent
        /\ q.body.combinePages = Absent
        /\ q.body.includePageNumbers = Absent
        /\ q.body.pages \in {Absent, Some(<<"1", ",", " ", "2">>)} }

AbandonInit == InitRun(AbandonRequests, {NoRequest})

\* The transport gives the request up (the client disconnects, or a proxy
\* times out) while the run waits for a page's recognition call (line 160,
\* line 286). No handler, service or middleware listens for it: the run is
\* left as it is.
Abandon(r) ==
    /\ pc[r] = "page"
    /\ req[r].route \in {"pdf/extract", "pdf/extract-pages"}
    /\ ~abandoned[r]
    /\ abandoned' = Set(abandoned, r, TRUE)
    /\ UNCHANGED <<req, pc, now, tempDir, uploads, unlinks, options,
                   saveFilename, loopVars, result, response, trace, handle,
                   closeListeners, timers, exitCode, events>>

\* The engine never answers the pending Tesseract.recognize call (line 64 of
\* extractTextFromImage, awaited without any time limit): the run stays
\* suspended at its await.
RecognizeNeverSettles(r) ==
    /\ pc[r] = "page"
    /\ req[r].route \in {"pdf/extract", "pdf/extract-pages"}
    /\ pending[r].kind = "recognize"
    /\ pending' = Set(pending, r, [pending[r] EXCEPT !.kind = "unanswered"])
    /\ UNCHANGED <<serverVars, req, pc, now, tempDir, uploads, unlinks, options,
                   saveFilename, imagePaths, pageNumbers, i, pageResults,
                   combinedText, totalConfidence, totalWords, result, response,
                   trace>>

AbandonNext ==
    \/ \E r \in RunIds : validateFile(r)
    \/ \E r \in RunIds : extractFromPdf(r)
    \/ \E r \in RunIds : ExtractRasterDone(r)
    \/ \E r \in RunIds : ExtractPageDone(r)
    \/ \E r \in RunIds : ExtractRespond(r)
    \/ \E r \in RunIds : extractFromPdfPages(r)
    \/ \E r \in RunIds : PagesRasterDone(r)
    \/ \E r \in RunIds : PagesPageDone(r)
    \/ \E r \in RunIds : PagesRespond(r)
    \/ \E r \in RunIds : Abandon(r)
    \/ \E r \in RunIds : RecognizeNeverSettles(r)

\* The document runs with a transport that may give a request up and an
\* engine that may never answer. The event loop runs every continuation that
\* is ready: a step that can be taken is taken.
AbandonSpec == AbandonInit /\ [][AbandonNext]_vars /\ WF_vars(AbandonNext)

(* ------------------------- server.js: shutdown ------------------------- *)

\* The signals that server.js handles (lines 39-41).
Signals == {"SIGTERM", "SIGINT"}

IsSignal(e) == e \in Signals

\* The process has not called process.exit.
Running == exitCode = Absent

\* A variant of gracefulShutdown that arms no forced-shutdown timer.
gracefulShutdown_noTimer(signal) ==
    /\ Running
    /\ Len(SelectSeq(events, IsSignal)) < MaxSignals
    /\ closeListeners' = Append(closeListeners, [err |-> ~handle])
    /\ handle' = FALSE
    /\ events' = Append(events, signal)
    /\ UNCHANGED <<req, pc, now, tempDir, uploads, unlinks, options,
                   saveFilename, loopVars, result, response, trace, abandoned,
                   timers, exitCode>>

\* gracefulShutdown (lines 7-25), run for a SIGTERM or a SIGINT. server.close
\* stops the server from listening and keeps its callback for the server's
\* 'close' event; on a server that is no longer listening the callback is
\* kept too, to be called with ERR_SERVER_NOT_RUNNING. Then the 10-second
\* timer is armed.
gracefulShutdown(signal) ==
    /\ Running
    /\ Len(SelectSeq(events, IsSignal)) < MaxSignals
    /\ closeListeners' = Append(closeListeners, [err |-> ~handle])
    /\ handle' = FALSE
    /\ timers' = timers + 1
    /\ events' = Append(events, signal)
    /\ UNCHANGED <<req, pc, now, tempDir, uploads, unlinks, options,
                   saveFilename, loopVars, result, response, trace, abandoned,
                   exitCode>>

\* The server emits 'close': it has stopped listening and its last
\* connection has ended, no request being in progress. The listeners are
\* called in the order they were added, and the first one, the callback of
\* the first server.close (lines 10-18), ends the process: exit code 1 when
\* it is given an error, 0 otherwise.
ServerClosed ==
    /\ Running
    /\ ~handle
    /\ closeListeners # <<>>
    /\ \A r \in RunIds : pc[r] = "done"
    /\ exitCode' = Some(IF Head(closeListeners).err THEN 1 ELSE 0)
    /\ closeListeners' = Tail(closeListeners)
    /\ events' = Append(events, "close")
    /\ UNCHANGED <<req, pc, now, tempDir, uploads, unlinks, options,
                   saveFilename, loopVars, result, response, trace, abandoned,
                   handle, timers>>

\* A forced-shutdown timer fires (lines 21-24).
ForcedShutdown ==
    /\ Running
    /\ timers > 0
    /\ timers' = timers - 1
    /\ exitCode' = Some(1)
    /\ events' = Append(events, "timeout")
    /\ UNCHANGED <<req, pc, now, tempDir, uploads, unlinks, options,
                   saveFilename, loopVars, result, response, trace, abandoned,
                   handle, closeListeners>>

\* A request for the information of a document is in progress when the
\* signals arrive.
ShutdownInit == InitRun(InfoRequests, {NoRequest})

\* The steps of the request go on as long as the process runs.
ShutdownNext ==
    \/ \E s \in Signals : gracefulShutdown(s)
    \/ ServerClosed
    \/ ForcedShutdown
    \/ \E r \in RunIds : Running /\ validateFile(r)
    \/ \E r \in RunIds : Running /\ getPdfInfo(r)
    \/ \E r \in RunIds : Running /\ InfoRasterDone(r)
    \/ \E r \in RunIds : Running /\ InfoRespond(r)

\* The process with its signal handlers. An armed timer that is due fires
\* unless the process has exited; nothing makes the server's connections
\* end, so nothing is assumed about 'close'.
ShutdownSpec ==
    ShutdownInit /\ [][ShutdownNext]_vars /\ WF_vars(ForcedShutdown)

(* ------------------------- what the claims read ------------------------ *)

IsOutcome(e) == e.e = "outcome"

IsRecognize(e) == e.e = "recognize"

IsRasterize(e) == e.e = "rasterize"

\* The settled extractTextFromImage calls of a run, in order, and the calls
\* it made to the engine and to the rasterizer.
Outcomes(r) == SelectSeq(trace[r], IsOutcome)

EngineCalls(r) == SelectSeq(trace[r], IsRecognize)

RasterCalls(r) == SelectSeq(trace[r], IsRasterize)

\* The raster images in the temp directory that a run created.
ImagesOf(r) == { p \in DOMAIN tempDir : tempDir[p].doc = r }

IsDocRoute(r) == req[r].route \in {"pdf/extract", "pdf/extract-pages"}

\* An entry of a report agrees with the outcome of the recognition call made
\* for it.
Agrees(entry, out) ==
    /\ HasError(entry) <=> ~out.ok
    /\ out.ok => /\ entry.text = out.o.res.text
                 /\ entry.confidence = out.o.res.confidence
    /\ ~out.ok => entry.error = out.o.message

\* s contains t as a contiguous piece.
Contains(s, t) ==
    \E k \in 0..(Len(s) - Len(t)) : SubSeq(s, k + 1, k + Len(t)) = t

\* The positions of the requested pages that exist in a document of count
\* pages, in requested order.
RECURSIVE ExistingFrom(_, _, _)
ExistingFrom(requested, k, count) ==
    IF k > Len(requested) THEN <<>>
    ELSE (IF requested[k] \in 1..count THEN <<k>> ELSE <<>>)
         \o ExistingFrom(requested, k + 1, count)

\* The sum of the confidences of the entries without an error.
RECURSIVE SuccessConfidence(_)
SuccessConfidence(pages) ==
    IF pages = <<>> THEN 0
    ELSE (IF NoError(Head(pages)) THEN Head(pages).confidence ELSE 0)
         + SuccessConfidence(Tail(pages))

(* -------------------------------- claims ------------------------------- *)

\* C1: when an invocation of extractTextFromPdf, extractTextFromPdfPages or
\* getPdfInfo has returned or thrown, no raster image that it created is
\* left in the temp directory. (The code leaves the images of a failed
\* rasterization and those whose unlink failed.)
C1_NoImageLeftAtReturn ==
    \A r \in RunIds : result[r].kind # "none" => ImagesOf(r) = {}

\* C2: extractTextFromPdf gives one entry per page of the document, numbered
\* 1, 2, ..., M in that order, and the entry of page k is decided by the
\* outcome of page k's recognition alone, whichever pages fail.
C2_OneEntryPerPageInOrder ==
    \A r \in RunIds : req[r].route = "pdf/extract" =>
        LET pages == pageResults[r]
            outs == Outcomes(r)
        IN  /\ Len(pages) = Len(outs)
            /\ \A k \in DOMAIN pages :
                   /\ pages[k].pageNumber = k
                   /\ Agrees(pages[k], outs[k])
                   /\ outs[k].path = RasterPath(saveFilename[r], k)
            /\ result[r].kind = "return" =>
                   /\ result[r].value.pages = pages
                   /\ Len(pages) = req[r].file.v.pages
                   /\ Len(pages) = Len(imagePaths[r])

\* C2 happens: a report of two pages, the first failed, the second recognized.
C2_Witness ==
    \E r \in RunIds :
        /\ req[r].route = "pdf/extract"
        /\ result[r].kind = "return"
        /\ Len(result[r].value.pages) = 2
        /\ HasError(result[r].value.pages[1])
        /\ NoError(result[r].value.pages[2])
        /\ result[r].value.pages[2].pageNumber = 2

\* C3: no recognition failure leaves the run. A document operation throws
\* only when no recognition has been attempted (the rasterizer failed); while
\* pages or items remain, the next call is pending whatever the outcomes so
\* far; and the report that is returned or sent has an entry for every page,
\* requested page or item.
C3_RecognitionFailuresContained ==
    \A r \in RunIds :
        /\ IsDocRoute(r) =>
              /\ result[r].kind = "throw" =>
                     Outcomes(r) = <<>> /\ imagePaths[r] = <<>>
              /\ pc[r] = "page" => pending[r].kind # "none"
              /\ result[r].kind = "return" =>
                     Len(result[r].value.pages) =
                         IF req[r].route = "pdf/extract"
                         THEN Len(imagePaths[r]) ELSE Len(pageNumbers[r])
        /\ req[r].route = "ocr/batch" =>
              /\ pc[r] = "item" =>
                     pending[r].kind # "none" /\ i[r] < Len(req[r].files.v)
              /\ (pc[r] = "done" /\ Outcomes(r) # <<>>) =>
                     /\ response[r].status = 200 /\ response[r].success
                     /\ Len(response[r].data.results) = Len(req[r].files.v)
                     /\ Len(Outcomes(r)) = Len(req[r].files.v)

\* C3 happens: the engine was called for both pages of a document, both
\* calls failed, and the report is returned.
C3_Witness ==
    \E r \in RunIds :
        /\ req[r].route = "pdf/extract"
        /\ result[r].kind = "return"
        /\ Len(EngineCalls(r)) = 2
        /\ Len(result[r].value.pages) = 2
        /\ \A k \in 1..2 : HasError(result[r].value.pages[k])

\* C4: the response of batchExtract has one entry per uploaded file, and the
\* entry at position k (from 0) carries fileInfo.index = k, names the k-th
\* file and reports the outcome of the k-th file's recognition.
C4_BatchOrderIsInputOrder ==
    \A r \in RunIds :
        (req[r].route = "ocr/batch" /\ response[r].status = 200) =>
            LET files == req[r].files.v
                results == response[r].data.results
            IN  /\ Len(results) = Len(files)
                /\ \A k \in 0..(Len(files) - 1) :
                       /\ results[k + 1].fileInfo.index = k
                       /\ results[k + 1].fileInfo.originalName
                              = files[k + 1].originalname
                       /\ Outcomes(r)[k + 1].path = files[k + 1].path
                       /\ results[k + 1].success <=> Outcomes(r)[k + 1].ok

\* C4 happens: three files, the second fails, the others are recognized.
C4_Witness ==
    \E r \in RunIds :
        /\ req[r].route = "ocr/batch"
        /\ response[r].status = 200
        /\ Len(response[r].data.results) = 3
        /\ response[r].data.results[1].success
        /\ ~response[r].data.results[2].success
        /\ response[r].data.results[3].success

\* C5: the report of extractTextFromPdfPages for the requested list R has
\* Len(R) entries and its k-th entry has pageNumber R[k]: requested order,
\* duplicates kept.
C5_RequestedOrder ==
    \A r \in RunIds :
        (req[r].route = "pdf/extract-pages" /\ result[r].kind = "return") =>
            LET pages == result[r].value.pages
            IN  /\ Len(pages) = Len(pageNumbers[r])
                /\ \A k \in DOMAIN pages : pages[k].pageNumber = pageNumbers[r][k]

\* C5 happens: the pages 2 and 1 are requested in that order and recognized.
C5_Witness ==
    \E r \in RunIds :
        /\ req[r].route = "pdf/extract-pages"
        /\ result[r].kind = "return"
        /\ pageNumbers[r] = <<2, 1>>
        /\ \A k \in 1..2 : NoError(result[r].value.pages[k])

\* C6: in a report of extractTextFromPdfPages for a document of M pages,
\* every requested number above M has a failed entry whose message names the
\* number and M, and no recognition call was made for it; the requested pages
\* within 1..M were each recognized, in requested order, and their entries
\* report the outcomes of their own calls; and the operation throws only
\* when the rasterizer failed.
C6_MissingPageIsAFailedEntry ==
    \A r \in RunIds : req[r].route = "pdf/extract-pages" =>
        /\ result[r].kind = "throw" => Outcomes(r) = <<>> /\ EngineCalls(r) = <<>>
        /\ result[r].kind = "return" =>
              LET requested == pageNumbers[r]
                  count == Len(imagePaths[r])
                  pages == result[r].value.pages
                  existing == ExistingFrom(requested, 1, count)
                  outs == Outcomes(r)
              IN  /\ count = req[r].file.v.pages
                  /\ Len(pages) = Len(requested)
                  /\ \A k \in DOMAIN requested : requested[k] > count =>
                         /\ HasError(pages[k])
                         /\ pages[k].pageNumber = requested[k]
                         /\ Contains(pages[k].error, NumStr(requested[k]))
                         /\ Contains(pages[k].error, NumStr(count))
                         /\ \A c \in DOMAIN trace[r] :
                                trace[r][c].path
                                    # RasterPath(saveFilename[r], requested[k])
                  /\ Len(outs) = Len(existing)
                  /\ \A j \in DOMAIN existing :
                         /\ outs[j].path
                                = RasterPath(saveFilename[r], requested[existing[j]])
                         /\ Agrees(pages[existing[j]], outs[j])

\* C6 happens: a page beyond the document is requested before a page of it,
\* and the latter is recognized.
C6_Witness ==
    \E r \in RunIds :
        /\ req[r].route = "pdf/extract-pages"
        /\ result[r].kind = "return"
        /\ Len(pageNumbers[r]) = 2
        /\ pageNumbers[r][1] > Len(imagePaths[r])
        /\ pageNumbers[r][2] <= Len(imagePaths[r])
        /\ HasError(result[r].value.pages[1])
        /\ NoError(result[r].value.pages[2])

\* C7: in a report of extractTextFromPdf or extractTextFromPdfPages with at
\* least one recognized page, summary.averageConfidence is the sum of the
\* confidences of the recognized pages divided by their number. (The code
\* divides by the number of all pages or entries.)
C7_AverageOverRecognizedPages ==
    \A r \in RunIds : (IsDocRoute(r) /\ result[r].kind = "return") =>
        LET pages == result[r].value.pages
        IN  Len(SelectSeq(pages, NoError)) > 0 =>
                FracEq(result[r].value.summary.averageConfidence,
                       SuccessConfidence(pages), Len(SelectSeq(pages, NoError)))

\* C8: in a report of extractTextFromPdf or extractTextFromPdfPages without
\* any recognized page, summary.averageConfidence is 0; in a report of two
\* pages, both recognized, with the confidences 80 and 100, it is 90.
C8_AverageEdgeCases ==
    \A r \in RunIds : (IsDocRoute(r) /\ result[r].kind = "return") =>
        LET pages == result[r].value.pages
            average == result[r].value.summary.averageConfidence
        IN  /\ Len(SelectSeq(pages, NoError)) = 0 => FracEq(average, 0, 1)
            /\ ( /\ Len(pages) = 2
                 /\ Len(SelectSeq(pages, NoError)) = 2
                 /\ { pages[k].confidence : k \in 1..2 } = {80, 100} )
               => FracEq(average, 90, 1)

\* C8 happens: a document of two pages or more, none of them recognized.
C8_Witness ==
    \E r \in RunIds :
        /\ req[r].route = "pdf/extract"
        /\ result[r].kind = "return"
        /\ Len(result[r].value.pages) >= 2
        /\ Len(SelectSeq(result[r].value.pages, NoError)) = 0
        /\ EngineCalls(r) # <<>>

\* The other case of C8 happens too: two pages recognized at 80 and 100.
C8_Witness90 ==
    \E r \in RunIds :
        /\ IsDocRoute(r)
        /\ result[r].kind = "return"
        /\ Len(result[r].value.pages) = 2
        /\ result[r].value.pages[1].confidence = 80
        /\ result[r].value.pages[2].confidence = 100
        /\ Len(SelectSeq(result[r].value.pages, NoError)) = 2

\* The marker of page N as the claim writes it.
ClaimedMarker(pageNumber) == <<"--- Page ">> \o NumStr(pageNumber) \o <<" ---">>

\* The text the claim describes: the texts of the recognized pages, in page
\* order, each preceded by its marker when its trimmed text is not empty.
RECURSIVE ClaimedCombined(_)
ClaimedCombined(pages) ==
    IF pages = <<>> THEN <<>>
    ELSE (IF HasError(Head(pages)) THEN <<>>
          ELSE (IF Trim(Head(pages).text) # <<>>
                THEN ClaimedMarker(Head(pages).pageNumber) ELSE <<>>)
               \o Head(pages).text)
         \o ClaimedCombined(Tail(pages))

\* The same with the separators: two line feeds on each side of a marker
\* and one line feed after each page's text.
RECURSIVE SeparatedCombined(_)
SeparatedCombined(pages) ==
    IF pages = <<>> THEN <<>>
    ELSE (IF HasError(Head(pages)) THEN <<>>
          ELSE (IF Trim(Head(pages).text) # <<>>
                THEN <<"\n", "\n">> \o ClaimedMarker(Head(pages).pageNumber)
                     \o <<"\n", "\n">>
                ELSE <<>>)
               \o Head(pages).text \o <<"\n">>)
         \o SeparatedCombined(Tail(pages))

BothFlagsSet(r) ==
    /\ req[r].route = "pdf/extract"
    /\ result[r].kind = "return"
    /\ options[r].combinePages.v
    /\ options[r].includePageNumbers.v

\* C9 as claimed: with combinePages and includePageNumbers set, the text of
\* the report is exactly the concatenation, in page order, of the recognized
\* pages' texts, with '--- Page N ---' right before the text of each page
\* whose trimmed text is not empty. (The code puts line feeds around the
\* markers and after the texts, and trims the whole.)
C9_CombinedIsBareConcatenation ==
    \A r \in RunIds : BothFlagsSet(r) =>
        result[r].value.text = JSStr(ClaimedCombined(result[r].value.pages))

\* C9 as amended: the text of the report is, trimmed, the concatenation in
\* page order over the recognized pages of: the marker '--- Page N ---'
\* between two line feeds on each side, only when the page's trimmed text is
\* not empty; the page's text; one line feed. Failed pages add nothing.
C9_CombinedWithSeparators ==
    \A r \in RunIds : BothFlagsSet(r) =>
        result[r].value.text
            = JSStr(Trim(SeparatedCombined(result[r].value.pages)))

\* C9 happens: three kinds of pages in one report: a failed page, a page
\* with text and a page whose text is empty once trimmed.
C9_Witness ==
    \E r \in RunIds :
        /\ BothFlagsSet(r)
        /\ \E k \in DOMAIN result[r].value.pages :
               NoError(result[r].value.pages[k])
               /\ result[r].value.pages[k].text # <<>>
        /\ \E k \in DOMAIN result[r].value.pages :
               HasError(result[r].value.pages[k])

\* C10: a PDF extract or extract-pages request whose language has an
\* unsupported component never reaches the rasterizer or the engine, has no
\* raster image created, and is answered as a validation failure (400).
\* (The code rasterizes first and reports the language per page.)
C10_UnsupportedLanguageRejectedFirst ==
    \A r \in RunIds :
        ( /\ IsDocRoute(r)
          /\ FirstUnsupported(Split(Default(req[r].body.language, <<"eng">>), "+"))
                 # <<>> )
        => /\ RasterCalls(r) = <<>>
           /\ EngineCalls(r) = <<>>
           /\ ImagesOf(r) = {}
           /\ response[r].status \in {0, 400}

\* The language a run's controller passes to every extractTextFromImage call.
LanguageOf(r) == Default(req[r].body.language, <<"eng">>)

\* C11: a call of extractTextFromImage whose language, split on '+', has a
\* component outside supportedLanguages fails without any call of
\* Tesseract.recognize; when every component is supported, the engine is
\* called exactly once per call, with the whole composite language string.
C11_LanguageCheckedBeforeEngine ==
    \A r \in RunIds :
        LET components == Split(LanguageOf(r), "+")
            bad == { k \in DOMAIN components :
                        \A s \in DOMAIN supportedLanguages :
                            supportedLanguages[s] # components[k] }
            outs == Outcomes(r)
            inFlight == IF pending[r].kind = "none" THEN 0 ELSE 1
        IN  /\ bad # {} =>
                /\ EngineCalls(r) = <<>>
                /\ pending[r].kind # "recognize"
                /\ \A k \in DOMAIN outs :
                       /\ ~outs[k].ok
                       /\ \E b \in bad :
                              outs[k].o.message
                                  = <<"OCR processing failed: ",
                                      "Unsupported language: ">> \o components[b]
            /\ bad = {} =>
                /\ pending[r].kind # "rejected"
                /\ Len(EngineCalls(r)) = Len(outs) + inFlight
                /\ \A k \in DOMAIN EngineCalls(r) :
                       EngineCalls(r)[k].o = LanguageOf(r)
                /\ \A k \in DOMAIN outs : EngineCalls(r)[k].path = outs[k].path

\* C11 happens: a run with the language eng+xxx has ended after two calls
\* of extractTextFromImage, both of them failed.
C11_Witness ==
    \E r \in RunIds :
        /\ LanguageOf(r) = <<"eng", "+", "xxx">>
        /\ Len(Outcomes(r)) >= 2
        /\ pc[r] = "done"

\* The other case of C11 happens: the engine is called with eng+fra.
C11_WitnessComposite ==
    \E r \in RunIds :
        /\ LanguageOf(r) = <<"eng", "+", "fra">>
        /\ Len(EngineCalls(r)) >= 2
        /\ pc[r] = "done"

\* A requested page value is numeric when, white space around it aside, it
\* is an optional sign and digits, and nothing else.
IsNumeric(value) ==
    LET t == Trim(value)
        u == IF t # <<>> /\ Head(t) \in {"-", "+"} THEN Tail(t) ELSE t
    IN  u # <<>> /\ \A k \in DOMAIN u : IsDigit(u[k])

\* The number a numeric value denotes.
NumericValue(value) ==
    LET t == Trim(value)
    IN  IF Head(t) = "-" THEN 0 - DigitsValue(Tail(t), 0)
        ELSE IF Head(t) = "+" THEN DigitsValue(Tail(t), 0)
        ELSE DigitsValue(t, 0)

\* The requested values that are numeric and positive, in their order.
RECURSIVE NumericPositive(_)
NumericPositive(values) ==
    IF values = <<>> THEN <<>>
    ELSE (IF IsNumeric(Head(values)) /\ NumericValue(Head(values)) > 0
          THEN <<NumericValue(Head(values))>> ELSE <<>>)
         \o NumericPositive(Tail(values))

\* An extract-pages request that has reached the parsing of its pages field
\* (pdfController.js, line 125).
PagesParsed(r) ==
    /\ req[r].route = "pdf/extract-pages"
    /\ req[r].file.set
    /\ isValidPdf(req[r].file.v.path)
    /\ req[r].body.pages.set
    /\ req[r].body.pages.v # <<>>
    /\ pc[r] \notin {"validateFile", "controller"}

\* C12: in an extract-pages request every requested value that is not
\* positive or not numeric is removed before rasterization begins, the others
\* keep their order, and when none remains the request fails with the page
\* format error without any call of the rasterizer. (parseInt reads the
\* digits a value begins with: "2x" is kept as page 2.)
C12_OnlyNumericPositivePagesKept ==
    \A r \in RunIds : PagesParsed(r) =>
        LET kept == NumericPositive(Split(req[r].body.pages.v, ","))
        IN  IF kept = <<>>
            THEN /\ response[r].status = 400
                 /\ response[r].code = "INVALID_PAGE_FORMAT"
                 /\ RasterCalls(r) = <<>>
            ELSE /\ pageNumbers[r] = kept
                 /\ Len(RasterCalls(r)) = 1

\* The raster image paths the rasterizer has written for a run.
WrittenPaths(r) ==
    UNION { { RasterPath(trace[r][k].path, n) : n \in 1..trace[r][k].o }
            : k \in { c \in DOMAIN trace[r] : trace[r][c].e = "rendered" } }

\* The run's document operation has called the rasterizer and has not
\* returned or thrown yet.
InFlight(r) == saveFilename[r] # <<>> /\ result[r].kind = "none"

\* C13: two document pipeline runs in progress at the same time, whatever
\* their operations and also when both read the same clock value, write
\* disjoint sets of raster image paths into the temp directory. (The code
\* names the images by operation and Date.now() only.)
C13_ConcurrentRunsWriteDisjointPaths ==
    \A r1, r2 \in RunIds :
        (r1 # r2 /\ InFlight(r1) /\ InFlight(r2)) =>
            WrittenPaths(r1) \cap WrittenPaths(r2) = {}

\* The images a run in its page loop has yet to recognize: the image of the
\* call in flight and those of the pages after it.
YetToRecognize(r) ==
    IF pc[r] # "page" THEN {}
    ELSE IF req[r].route = "pdf/extract"
    THEN { imagePaths[r][k] : k \in (i[r] + 1)..Len(imagePaths[r]) }
    ELSE { imagePaths[r][pageNumbers[r][k]] :
             k \in { j \in (i[r] + 1)..Len(pageNumbers[r]) :
                        pageNumbers[r][j] <= Len(imagePaths[r]) } }

\* C14: a run is self-contained: every image it has yet to recognize is in
\* the temp directory as the run's rasterization wrote it, no other run
\* having deleted or overwritten it, so that its report is the one it
\* returns when it runs alone. (Two runs that read the same clock value
\* share their image paths.)
C14_RunsAreSelfContained ==
    \A r \in RunIds :
        \A p \in YetToRecognize(r) :
            /\ p \in DOMAIN tempDir
            /\ tempDir[p].doc = r

IsCallEvent(e) == e.e \in {"recognize", "outcome"}

\* The starts and the completions of a run's recognition calls, in order.
CallEvents(r) == SelectSeq(trace[r], IsCallEvent)

\* The images of the extractTextFromImage calls a run has started, in order:
\* those that have settled and the one awaited.
Started(r) ==
    [k \in DOMAIN Outcomes(r) |-> Outcomes(r)[k].path]
    \o (IF pending[r].kind = "none" THEN <<>> ELSE <<pending[r].path>>)

\* The images a run is to recognize, in the order of its pages (extract), of
\* its requested pages that exist (extract-pages) or of its files (batch).
Planned(r) ==
    IF req[r].route = "pdf/extract"
    THEN [k \in DOMAIN imagePaths[r] |-> RasterPath(saveFilename[r], k)]
    ELSE IF req[r].route = "pdf/extract-pages"
    THEN LET existing == ExistingFrom(pageNumbers[r], 1, Len(imagePaths[r]))
         IN  [j \in DOMAIN existing |->
                 RasterPath(saveFilename[r], pageNumbers[r][existing[j]])]
    ELSE IF req[r].route = "ocr/batch" /\ req[r].files.set
    THEN [k \in DOMAIN req[r].files.v |-> req[r].files.v[k].path]
    ELSE <<>>

\* C15: within a run at most one recognition call is in flight: a call that
\* was started is completed before the next one starts, and the calls are
\* started in page order, requested order or input order.
C15_OneCallAtATimeInOrder ==
    \A r \in RunIds :
        LET calls == CallEvents(r)
            started == Started(r)
        IN  /\ \A k \in DOMAIN calls : calls[k].e = "recognize" =>
                   IF k = Len(calls)
                   THEN pending[r].kind = "recognize"
                        /\ pending[r].path = calls[k].path
                   ELSE calls[k + 1].e = "outcome"
                        /\ calls[k + 1].path = calls[k].path
            /\ (calls # <<>> /\ calls[Len(calls)].e = "outcome") =>
                   pending[r].kind # "recognize"
            /\ Len(started) <= Len(Planned(r))
            /\ \A k \in DOMAIN started : started[k] = Planned(r)[k]

\* C15 happens: the second page's call of a document is in flight after the
\* first page's call has failed in the engine.
C15_Witness ==
    \E r \in RunIds :
        /\ req[r].route = "pdf/extract"
        /\ Len(EngineCalls(r)) = 2
        /\ Len(Outcomes(r)) = 1
        /\ ~Outcomes(r)[1].ok
        /\ pending[r].kind = "recognize"

\* The outcome event of a call that succeeded.
IsSuccessful(e) == e.ok

IsFailedUnlink(e) == e.e = "unlink" /\ ~e.ok

\* One of the run's fs.unlinkSync calls on a raster image has failed.
UnlinkFailed(r) == SelectSeq(trace[r], IsFailedUnlink) # <<>>

\* The entries of a report are those the outcomes of the run's recognition
\* calls give: the entry of each page that was recognized agrees with the
\* outcome of its own call, and the other entries (extract-pages only) are
\* those of the requested pages that do not exist.
EntriesFollowOutcomes(r, pages) ==
    LET outs == Outcomes(r)
        existing == IF req[r].route = "pdf/extract"
                    THEN [k \in DOMAIN pages |-> k]
                    ELSE ExistingFrom(pageNumbers[r], 1, Len(imagePaths[r]))
    IN  /\ Len(outs) = Len(existing)
        /\ \A j \in DOMAIN existing : Agrees(pages[existing[j]], outs[j])
        /\ \A k \in DOMAIN pages \ Range(existing) :
               pages[k].error
                   = <<"Page ">> \o NumStr(pageNumbers[r][k])
                     \o <<" does not exist. PDF has ">>
                     \o NumStr(Len(imagePaths[r])) \o <<" pages.">>

\* C16: a failing delete of a raster image changes nothing in the result of
\* extractTextFromPdf, extractTextFromPdfPages or getPdfInfo: the run does
\* not throw, and its report is the one the outcomes of its recognition
\* calls give (for getPdfInfo, the page count of the document), as it is
\* when every delete succeeds.
C16_FailedDeleteChangesNoResult ==
    \A r \in RunIds : UnlinkFailed(r) =>
        /\ result[r].kind # "throw"
        /\ pc[r] = "done" => response[r].status = 200
        /\ result[r].kind = "return" =>
              IF req[r].route = "pdf/info"
              THEN result[r].value.pageCount = req[r].file.v.pages
              ELSE /\ Len(result[r].value.pages)
                          = IF req[r].route = "pdf/extract"
                            THEN req[r].file.v.pages ELSE Len(pageNumbers[r])
                   /\ EntriesFollowOutcomes(r, result[r].value.pages)
                   /\ result[r].value.summary.successfulPages
                          = Len(SelectSeq(Outcomes(r), IsSuccessful))

\* C16 happens: the delete of the first page's image failed, and both pages
\* of the report are recognized.
C16_Witness ==
    \E r \in RunIds :
        /\ req[r].route = "pdf/extract"
        /\ result[r].kind = "return"
        /\ UnlinkFailed(r)
        /\ ~SelectSeq(trace[r], IsFailedUnlink)[1].ok
        /\ SelectSeq(trace[r], IsFailedUnlink)[1].path
               = RasterPath(saveFilename[r], 1)
        /\ Len(result[r].value.pages) = 2
        /\ \A k \in 1..2 : NoError(result[r].value.pages[k])

IsFailedRender(e) == e.e = "rendered" /\ ~e.ok

\* The rasterizer has failed for the run's document.
RasterFailed(r) == SelectSeq(trace[r], IsFailedRender) # <<>>

\* C17: when the rasterizer fails, extractTextFromPdf and
\* extractTextFromPdfPages throw: no report is produced, no recognition call
\* is made, and the request is answered with an error (success = false).
C17_RasterFailureFailsTheRequest ==
    \A r \in RunIds : (IsDocRoute(r) /\ RasterFailed(r)) =>
        /\ result[r].kind = "throw"
        /\ Contains(result[r].message, ConvertError)
        /\ pageResults[r] = <<>>
        /\ pending[r].kind = "none"
        /\ Outcomes(r) = <<>>
        /\ EngineCalls(r) = <<>>
        /\ pc[r] \in {"settled", "done"}
        /\ pc[r] = "done" =>
              /\ response[r].status = 500
              /\ ~response[r].success
              /\ response[r].data = <<>>
              /\ response[r].error = result[r].message

\* C17 happens: the rasterizer failed after it wrote the image of a page,
\* and the request has its error response.
C17_Witness ==
    \E r \in RunIds :
        /\ IsDocRoute(r)
        /\ RasterFailed(r)
        /\ SelectSeq(trace[r], IsFailedRender)[1].o >= 1
        /\ pc[r] = "done"
        /\ response[r].status = 500

\* The number of a run's recognition calls that succeeded.
Succeeded(r) == Len(SelectSeq(Outcomes(r), IsSuccessful))

\* C18: in every report the success count is the number of pages or items
\* whose recognition call succeeded, the failure count is the number of the
\* other outcomes (failed calls and requested pages that do not exist), and
\* the two add up to the number of outcomes: totalPages (extract),
\* requestedPages (extract-pages), totalFiles (batch).
C18_CountsMatchOutcomes ==
    \A r \in RunIds :
        /\ (req[r].route = "pdf/extract" /\ result[r].kind = "return") =>
              LET report == result[r].value
              IN  /\ report.summary.totalPages = Len(report.pages)
                  /\ report.summary.successfulPages = Succeeded(r)
                  /\ report.summary.failedPages = Len(report.pages) - Succeeded(r)
        /\ (req[r].route = "pdf/extract-pages" /\ result[r].kind = "return") =>
              LET report == result[r].value
              IN  /\ report.summary.requestedPages = Len(report.pages)
                  /\ report.summary.successfulPages = Succeeded(r)
                  /\ report.summary.failedPages = Len(report.pages) - Succeeded(r)
        /\ (req[r].route = "ocr/batch" /\ response[r].status = 200) =>
              LET report == response[r].data
              IN  /\ report.summary.totalFiles = Len(report.results)
                  /\ report.summary.successfulFiles = Succeeded(r)
                  /\ report.summary.failedFiles = Len(report.results) - Succeeded(r)

\* C18 happens: of two requested pages that exist, one was recognized and
\* the other failed.
C18_Witness ==
    \E r \in RunIds :
        /\ req[r].route = "pdf/extract-pages"
        /\ result[r].kind = "return"
        /\ Len(Outcomes(r)) = 2
        /\ Succeeded(r) = 1
        /\ result[r].value.summary.failedPages = 1

\* C18 happens with a requested page that does not exist, too.
C18_WitnessMissing ==
    \E r \in RunIds :
        /\ req[r].route = "pdf/extract-pages"
        /\ result[r].kind = "return"
        /\ Len(Outcomes(r)) = 1
        /\ Succeeded(r) = 1
        /\ result[r].value.summary.failedPages = 1

IsRendered(e) == e.e = "rendered"

\* The images of a run's engine calls, in order.
CallPaths(r) == [k \in DOMAIN EngineCalls(r) |-> EngineCalls(r)[k].path]

\* The number of entries of a sequence of paths that are the given path.
TimesIn(paths, path) == Cardinality({ k \in DOMAIN paths : paths[k] = path })

\* C19: nothing is retried. A run calls the rasterizer once (never, when
\* the request is rejected before, or is a batch), and the engine at most
\* once for each page, each entry of the requested list or each item,
\* whether the call succeeds or fails.
C19_NothingIsRetried ==
    \A r \in RunIds :
        /\ Len(RasterCalls(r)) = IF saveFilename[r] # <<>> THEN 1 ELSE 0
        /\ (IsDocRoute(r) /\ result[r].kind # "none") =>
               Len(RasterCalls(r)) = 1
        /\ Len(SelectSeq(trace[r], IsRendered)) <= 1
        /\ Len(EngineCalls(r)) <= Len(Planned(r))
        /\ \A k \in DOMAIN CallPaths(r) :
               TimesIn(CallPaths(r), CallPaths(r)[k])
                   <= TimesIn(Planned(r), CallPaths(r)[k])

\* C19 happens: page 1 is requested twice; the first call failed in the
\* engine, and the engine was called twice in all.
C19_Witness ==
    \E r \in RunIds :
        /\ req[r].route = "pdf/extract-pages"
        /\ result[r].kind = "return"
        /\ pageNumbers[r] = <<1, 1>>
        /\ Len(EngineCalls(r)) = 2
        /\ ~Outcomes(r)[1].ok

\* C20: in every report of extractTextFromPdf or extractTextFromPdfPages for
\* a document of M pages, no two entries have the same pageNumber and every
\* pageNumber is in 1..M. (extractTextFromPdfPages keeps the duplicates of
\* the requested list and gives an entry to a requested page above M.)
C20_PageNumbersUniqueInRange ==
    \A r \in RunIds : (IsDocRoute(r) /\ result[r].kind = "return") =>
        LET pages == result[r].value.pages
        IN  /\ \A j, k \in DOMAIN pages :
                   j # k => pages[j].pageNumber # pages[k].pageNumber
            /\ \A k \in DOMAIN pages :
                   pages[k].pageNumber \in 1..req[r].file.v.pages

\* The same for extractTextFromPdf alone, whose reports do satisfy it.
C20_ExtractOnly ==
    \A r \in RunIds :
        (req[r].route = "pdf/extract" /\ result[r].kind = "return") =>
            LET pages == result[r].value.pages
            IN  /\ \A j, k \in DOMAIN pages :
                       j # k => pages[j].pageNumber # pages[k].pageNumber
                /\ \A k \in DOMAIN pages :
                       pages[k].pageNumber \in 1..req[r].file.v.pages

(* ---------------------------------- C21 -------------------------------- *)

\* The unit arrays of the detailed response, each with its include flag.
UnitFlags ==
    { <<"words", "includeWords">>, <<"lines", "includeLines">>,
      <<"paragraphs", "includeParagraphs">>, <<"blocks", "includeBlocks">> }

\* A detailed image request answered with a recognition result.
DetailedAnswered(r) ==
    /\ req[r].route = "ocr/extract-detailed"
    /\ response[r].success

\* C21: in the detailed image extract operation each of the four inclusion
\* flags (words, lines, paragraphs, blocks) defaults to including its unit
\* set: a request that omits a flag receives the corresponding unit array in
\* the response, whatever the other three flags are. (The code compares the
\* flag with the string 'true', which the default, the boolean true, is not:
\* the unit of an omitted flag is left out.)
C21_OmittedFlagIncludesUnit ==
    \A r \in RunIds : DetailedAnswered(r) =>
        \A u \in UnitFlags :
            req[r].body[u[2]] = Absent => u[1] \in DOMAIN response[r].data

(* ---------------------------------- C22 -------------------------------- *)

\* extractTextFromPdf has returned its report to the controller.
ExtractReported(r) ==
    /\ req[r].route = "pdf/extract"
    /\ result[r].kind = "return"

\* C22: the report of extractTextFromPdf carries a combined text exactly
\* when the combine-pages option is set: with the option the text is a
\* string, without it the text is null, whatever the pages contain.
C22_CombinedTextIffCombineOption ==
    \A r \in RunIds : ExtractReported(r) =>
        IF options[r].combinePages.v
        THEN result[r].value.text.t = "string"
        ELSE result[r].value.text = JSNull

\* C22 happens: a report without the option whose pages have text.
C22_Witness ==
    \E r \in RunIds :
        /\ ExtractReported(r)
        /\ ~options[r].combinePages.v
        /\ result[r].value.text = JSNull
        /\ \E k \in DOMAIN result[r].value.pages :
               /\ NoError(result[r].value.pages[k])
               /\ result[r].value.pages[k].text # <<>>

(* ---------------------------------- C23 -------------------------------- *)

\* C23: when the transport gives up an in-flight document run at any point
\* after rasterization, every raster image the run has created is still
\* deleted in the end, the images of the pages not yet processed included,
\* also when a recognition call never returns. (A failed delete and a failed
\* rasterization, which leave images behind with or without abandonment,
\* are left out of the statement.)
C23_AbandonedRunDeletesItsImages ==
    \A r \in RunIds :
        [](abandoned[r] =>
              <>(ImagesOf(r) = {} \/ UnlinkFailed(r) \/ RasterFailed(r)))

\* The same without the engine that never answers: the run is still deleted
\* behind, because nothing in the run depends on the transport.
C23_AnsweredCalls ==
    \A r \in RunIds :
        [](abandoned[r] =>
              <>(\/ ImagesOf(r) = {} \/ UnlinkFailed(r) \/ RasterFailed(r)
                 \/ pending[r].kind = "unanswered"))

(* ---------------------------------- C24 -------------------------------- *)

\* The routes that take one file (uploadSingle): the image and the PDF
\* extraction routes.
IsSingleFileRoute(r) == req[r].route \notin {"none", "ocr/batch"}

\* C24: a request to an image or PDF extraction route that carries no
\* uploaded file is answered with status 400 and the code NO_FILE, and no
\* recognition or rasterization call is made. (validateFile, which the
\* routers run before the controllers, answers it with NO_FILE_UPLOADED.)
C24_NoFileIsAnsweredNoFile ==
    \A r \in RunIds :
        (IsSingleFileRoute(r) /\ ~req[r].file.set) =>
            /\ EngineCalls(r) = <<>>
            /\ RasterCalls(r) = <<>>
            /\ pc[r] = "done" =>
                   response[r].status = 400 /\ response[r].code = "NO_FILE"

\* The part of C24 that the code keeps: status 400 and no call.
C24_NoFileIsRejected ==
    \A r \in RunIds :
        (IsSingleFileRoute(r) /\ ~req[r].file.set) =>
            /\ EngineCalls(r) = <<>>
            /\ RasterCalls(r) = <<>>
            /\ pc[r] = "done" =>
                   /\ response[r].status = 400
                   /\ response[r].code = "NO_FILE_UPLOADED"

(* ---------------------------------- C25 -------------------------------- *)

IsImageRoute(r) == req[r].route \in {"ocr/extract", "ocr/extract-detailed"}

IsFailure(e) == ~e.ok

\* The run's recognition was refused for its language: it failed without
\* any call to the engine.
LanguageRejected(r) ==
    /\ SelectSeq(Outcomes(r), IsFailure) # <<>>
    /\ EngineCalls(r) = <<>>
    /\ FirstUnsupported(Split(LanguageOf(r), "+")) # <<>>

\* The run's call to the engine failed.
EngineFailed(r) ==
    /\ SelectSeq(Outcomes(r), IsFailure) # <<>>
    /\ EngineCalls(r) # <<>>

\* C25: a recognition rejected for an unsupported language component reaches
\* the caller as a validation-kind error that can be told from an engine
\* failure: a single-image operation does not report the two with the same
\* status and error code. (The validation throws inside the try of
\* extractTextFromImage, whose catch wraps it like an engine error, and the
\* controller answers every error with 500 and the one code of the route.)
C25_RejectionToldFromEngineFailure ==
    \A r1, r2 \in RunIds :
        (/\ IsImageRoute(r1) /\ req[r2].route = req[r1].route
         /\ pc[r1] = "done" /\ pc[r2] = "done"
         /\ LanguageRejected(r1) /\ EngineFailed(r2))
        => <<response[r1].status, response[r1].code>>
               # <<response[r2].status, response[r2].code>>

(* ---------------------------------- C26 -------------------------------- *)

IsPdfRoute(r) ==
    req[r].route \in {"pdf/extract", "pdf/extract-pages", "pdf/info",
                      "pdf/convert-images"}

\* The run's request is refused as a request: no call to the rasterizer, no
\* raster image, and an answer with status 400.
RefusedBeforeRaster(r) ==
    /\ RasterCalls(r) = <<>>
    /\ ImagesOf(r) = {}
    /\ pc[r] = "done" => response[r].status = 400

\* C26: for the four PDF operations (extract, extract-pages, info,
\* convert-images) a file that is not of the supported document container
\* format is rejected with a request-level error before the rasterizer is
\* called, and no raster image is created. (isValidPdf looks at the
\* extension of the stored file's name only.)
C26_OnlyDocumentsAreRasterized ==
    \A r \in RunIds :
        (IsPdfRoute(r) /\ req[r].file.set /\ req[r].file.v.content # "pdf")
            => RefusedBeforeRaster(r)

\* What the code does check: a file whose stored name does not end in .pdf
\* (in either case) is rejected before the rasterizer on the four routes.
C26_OtherExtensionsAreRejected ==
    \A r \in RunIds :
        (IsPdfRoute(r) /\ req[r].file.set /\ ~isValidPdf(req[r].file.v.path))
            => RefusedBeforeRaster(r)

(* ---------------------------------- C27 -------------------------------- *)

IsUnlink(e) == e.e = "unlink"

\* In the calls of run r, the delete at position u comes after the
\* recognition call event (a call to the engine, or a call's outcome) at
\* position c.
DeletedAfter(r, u, c) ==
    (IsUnlink(trace[r][u]) /\ IsCallEvent(trace[r][c])) => c < u

\* C27: within a document run no raster image is deleted before every
\* recognition call of the run that reads it has completed. In
\* extractTextFromPdf the image of a page is deleted only after that page's
\* call has returned or failed; in extractTextFromPdfPages no image is
\* deleted until the whole requested list has been processed, so that a
\* page requested several times is recognized against an existing image
\* each time.
C27_NoImageDeletedBeforeItsCalls ==
    \A r \in RunIds : IsDocRoute(r) =>
        /\ \A u, c \in DOMAIN trace[r] :
               (req[r].route = "pdf/extract-pages"
                \/ trace[r][u].path = trace[r][c].path) => DeletedAfter(r, u, c)
        /\ \A u \in DOMAIN trace[r] :
               (req[r].route = "pdf/extract" /\ IsUnlink(trace[r][u])) =>
                   \E c \in 1..(u - 1) :
                       /\ IsOutcome(trace[r][c])
                       /\ trace[r][c].path = trace[r][u].path
        /\ (pc[r] = "page" /\ pending[r].kind = "recognize") =>
               pending[r].path \in DOMAIN tempDir

\* C27 happens: an extract-pages run that recognized the image of one page
\* twice and then deleted its images.
C27_Witness ==
    \E r \in RunIds :
        /\ req[r].route = "pdf/extract-pages"
        /\ result[r].kind = "return"
        /\ \E k1, k2 \in DOMAIN CallPaths(r) :
               k1 # k2 /\ CallPaths(r)[k1] = CallPaths(r)[k2]
        /\ SelectSeq(trace[r], IsUnlink) # <<>>

\* C27 happens in extractTextFromPdf too: two pages recognized and deleted.
C27_WitnessExtract ==
    \E r \in RunIds :
        /\ req[r].route = "pdf/extract"
        /\ result[r].kind = "return"
        /\ Len(EngineCalls(r)) = 2
        /\ Len(SelectSeq(trace[r], IsUnlink)) = 2

(* ---------------------------------- C28 -------------------------------- *)

\* The convert-images request was answered with its images.
ConvertAnswered(r) ==
    /\ req[r].route = "pdf/convert-images"
    /\ response[r].success

\* The answer has exactly one entry per page 1..M of the document, in order,
\* and its counts add up to M.
OneEntryPerPage(r) ==
    LET images == response[r].data.images
        summary == response[r].data.summary
        M == req[r].file.v.pages
    IN  /\ Len(images) = M
        /\ \A k \in DOMAIN images : images[k].pageNumber = k
        /\ summary.totalPages = M
        /\ summary.successfulConversions + summary.failedConversions = M

\* C28: for a document that rasterizes to M pages the convert-images
\* operation returns exactly M image entries, one per pageNumber 1..M, each
\* a converted image or an error entry but never both, so that
\* successfulConversions + failedConversions = totalPages = M, for every
\* pattern of failing file reads and failing file deletes. (The entry of an
\* image is pushed before its unlinkSync, inside the same try: a failing
\* delete adds an error entry for a page that already has its image entry.)
C28_OneEntryPerConvertedPage ==
    \A r \in RunIds : ConvertAnswered(r) => OneEntryPerPage(r)

\* The same holds as long as no delete fails, whatever reads fail.
C28_WithoutFailedDeletes ==
    \A r \in RunIds :
        (ConvertAnswered(r) /\ ~UnlinkFailed(r)) => OneEntryPerPage(r)

(* ---------------------------------- C29 -------------------------------- *)

\* The uploaded files of run r, all still in the uploads directory.
UploadsOnDisk(r) == UploadKeys(r, req[r]) \subseteq DOMAIN uploads

\* C29: for every request on the OCR and PDF routes that stored uploaded
\* files, the deletion of each uploaded file is started when the response is
\* sent, exactly once per file, and never before the controller has finished
\* all its recognition and rasterization work on the file; for success and
\* for error responses alike.
C29_UploadsUnlinkedOnceAtResponse ==
    \A r \in RunIds :
        /\ response[r] = NoResponse =>
               unlinks[r] = <<>> /\ UploadsOnDisk(r)
        /\ response[r] # NoResponse =>
               /\ pc[r] = "done"
               /\ pending[r] = NoPending
               /\ \A f \in DOMAIN UploadPaths(req[r]) :
                      TimesIn(unlinks[r], UploadPaths(req[r])[f]) = 1
               /\ Len(unlinks[r]) = Len(UploadPaths(req[r]))

\* C29 happens: an error response after the work on the file, with the
\* deletion of the file started.
C29_Witness ==
    \E r \in RunIds :
        /\ response[r].status = 500
        /\ EngineCalls(r) # <<>> \/ RasterCalls(r) # <<>>
        /\ unlinks[r] # <<>>

\* C29 happens for a batch as well: a success response, the deletion of
\* each of its files started and one of them completed.
C29_WitnessBatch ==
    \E r \in RunIds :
        /\ req[r].route = "ocr/batch"
        /\ response[r].success
        /\ Len(unlinks[r]) > 1
        /\ ~UploadsOnDisk(r)

(* ---------------------------------- C30 -------------------------------- *)

IsEnding(e) == e \in {"close", "timeout"}

\* The process has received a signal.
Signalled == SelectSeq(events, IsSignal) # <<>>

Exited == exitCode # Absent

\* The server closed, without error, before a forced-shutdown timer fired.
ClosedInTime ==
    /\ SelectSeq(events, IsEnding) # <<>>
    /\ Head(SelectSeq(events, IsEnding)) = "close"

\* The exit code is the one of the process's ending: 0 for a server closed
\* in time, 1 otherwise; and the process only ends after a signal.
ExitCodeRight ==
    Exited =>
        /\ Signalled
        /\ exitCode = Some(IF ClosedInTime THEN 0 ELSE 1)

\* C30: after the process has received SIGTERM or SIGINT, once or several
\* times and in any order, it exits in the end: with exit code 0 if and only
\* if the server closes without error before the 10-second timer fires, with
\* exit code 1 otherwise; a second signal during the shutdown does not turn
\* a clean shutdown into exit code 1.
C30_ShutdownExitsWithTheRightCode ==
    /\ [] ExitCodeRight
    /\ Signalled ~> Exited

\* C30 happens: a clean shutdown after two signals.
C30_Witness ==
    /\ exitCode = Some(0)
    /\ Len(SelectSeq(events, IsSignal)) = 2
    /\ closeListeners # <<>>

\* C30 happens the other way too: the timer ends a shutdown during which the
\* request in progress did not finish.
C30_WitnessForced ==
    /\ exitCode = Some(1)
    /\ \E r \in RunIds : pc[r] # "done"

====
